---- MODULE Spec2Model ----
(***************************************************************************)
(* Model of the generic cubic equation-of-state core of thermo/eos.py:     *)
(* GCEOS.solve, the root solver chain volume_solutions_NR, the phase        *)
(* selector set_from_PT / set_properties_from_solution and                  *)
(* resolve_full_alphas.                                                     *)
(*                                                                          *)
(* Number model.  Floats are modelled on integer grids:                     *)
(*   - temperatures, pressures, volumes and a_alpha are integers;           *)
(*   - the pressure unit is half of the 1e-2 Pa low-pressure threshold;     *)
(*   - a root is a record [re, im]; im is counted in units of 1e-12 of the  *)
(*     unit of re, so that abs(imag/real) < 1e-12 is Abs(im) < Abs(re);     *)
(*     the placeholders 1j and -1j carry the saturated value ImOne;         *)
(*   - T and P are exact fractions [n, d] with d > 0, so that the computed *)
(*     pressure of a (T, V) solve and P*V/R keep their exact value;         *)
(*   - PIP is counted as its offset from 1.0 in units of 1e-14.             *)
(* The closed-form cubic solvers, Newton polishing, brenth, mpmath and the  *)
(* derivative formulas are numeric kernels: the model draws their outcome   *)
(* (a root list or an exception, a PIP value) from bounded sets, one fixed  *)
(* outcome per kernel and per solve, since each is a pure function.         *)
(***************************************************************************)
EXTENDS Integers, Sequences, FiniteSets, TLC

\* ---------------------------------------------------------------- bounds
MaxT == 2           \* temperatures 1..MaxT
MaxResolves == 2    \* calls of resolve_full_alphas explored per object

\* ------------------------------------------------------- program constants
R == 8              \* gas constant (thermo.utils.R), rounded
P_low == 2          \* the 1e-2 Pa threshold of volume_solutions_NR
PIP_tol == 1        \* the 1e-14 tolerance above 1.0 in the PIP test
ImOne == 1000       \* imaginary part of the placeholders 1j / -1j

\* ------------------------------------------------------------ input sets
Temps == 1..MaxT
Pressures == {1, 4}
Volumes == {-3, -1, 0, 1, 3}
Tcs == {2}
Pcs == {4}
b0s == {1}                  \* c2*R*Tc/Pc of the PR family
Cs == {1, 3}                \* volume translations c of PRTranslated
a_alphas == {0, 112}        \* values a_alpha_and_derivatives can return
PIPs == {1, 2}              \* PIP offsets the derivative kernel can return

None == << >>
Some(x) == << x >>
Val(x) == x[1]
IsSome(x) == x # << >>

Abs(x) == IF x < 0 THEN -x ELSE x

Re(x) == [re |-> x, im |-> 0]
Cx(x, y) == [re |-> x, im |-> y]
J == [re |-> 0, im |-> ImOne]           \* 1j
MinusJ == [re |-> 0, im |-> -ImOne]     \* -1j (real part -0.0)

Frac(n, d) == IF d < 0 THEN [n |-> -n, d |-> -d] ELSE [n |-> n, d |-> d]
FracEq(p, k) == p.n = k * p.d           \* p == k
FracLt0(p) == p.n < 0                   \* p < 0.0
FracLe0(p) == p.n <= 0                  \* p <= 0.0

RECURSIVE SeqMin(_)
SeqMin(s) == IF Len(s) = 1 THEN s[1]
             ELSE LET m == SeqMin(Tail(s)) IN IF s[1] <= m THEN s[1] ELSE m

RECURSIVE SeqMax(_)
SeqMax(s) == IF Len(s) = 1 THEN s[1]
             ELSE LET m == SeqMax(Tail(s)) IN IF s[1] >= m THEN s[1] ELSE m

\* --------------------------------------------------------- the EOS object
\* Attributes that Python leaves unset are None; phase "unset" likewise.
NewObject(cls, Tc, Pc, c, b, delta, epsilon, T, P, V) ==
    [cls |-> cls, Tc |-> Tc, Pc |-> Pc, c |-> c,
     b |-> b, delta |-> delta, epsilon |-> epsilon,
     T |-> T, P |-> P, V |-> V,
     a_alpha |-> None, alphas |-> "unset",
     raw_volumes |-> None,
     phase |-> "unset",
     V_l |-> None, V_g |-> None,
     PIP_l |-> None, PIP_g |-> None,
     alphas_l |-> "unset", alphas_g |-> "unset",
     no_T_spec |-> FALSE]

\* IG.__init__ (class attributes b = delta = epsilon = 0)
IG_init(Tc, Pc, T, P, V) == NewObject("IG", Tc, Pc, 0, 0, 0, 0, T, P, V)

\* PR.__init__: b, delta = 2b, epsilon = -b*b
PR_init(Tc, Pc, b0, T, P, V) ==
    NewObject("PR", Tc, Pc, 0, b0, 2 * b0, -(b0 * b0), T, P, V)

\* PRTranslated.__init__: b = b0 - c, delta = 2(c + b0),
\* epsilon = -b0*b0 + c*c + 2*c*b0
PRTranslated_init(Tc, Pc, b0, c, T, P, V) ==
    NewObject("PRTranslated", Tc, Pc, c, b0 - c, 2 * (c + b0),
              -(b0 * b0) + c * c + 2 * c * b0, T, P, V)

\* ------------------------------------------------------ the phase selector
\* abs(i.imag/i.real) < 1E-12
RatioTiny(r) == Abs(r.im) < Abs(r.re)

\* a filter that looks at the real part only
good_root_real_part_only(r, b) == r.re > b

\* the filter of set_from_PT
good_root(r, b) == (r.re = 0 \/ RatioTiny(r)) /\ r.re > b

good_roots(Vs, b) ==
    LET ok(r) == good_root(r, b)
        kept == SelectSeq(Vs, ok)
    IN [i \in 1..Len(kept) |-> kept[i].re]

\* V*V + delta*V + epsilon
Den1(o, Vv) == Vv * Vv + o.delta * Vv + o.epsilon

\* the divisions of main_derivatives_and_departures and of
\* set_properties_from_solution that raise ZeroDivisionError
props_raise(o, Vv) ==
    Vv - o.b = 0 \/ Den1(o, Vv) = 0 \/ R * Val(o.T).n = 0 \/ Vv = 0

\* the PIP test of set_properties_from_solution
is_liquid(force_l, force_g, pip) == force_l \/ (~force_g /\ pip > PIP_tol)

\* One call of set_properties_from_solution: the record written, the phase
\* returned, or the exception.
set_properties_from_solution(o, Vv, force_l, force_g, pip) ==
    IF props_raise(o, Vv)
    THEN [o |-> o, err |-> "ZeroDivisionError", ret |-> "none"]
    ELSE IF is_liquid(force_l, force_g, pip)
    THEN [o |-> [o EXCEPT !.V_l = Some(Vv), !.PIP_l = Some(pip),
                          !.alphas_l = o.alphas],
          err |-> "none", ret |-> "l"]
    ELSE [o |-> [o EXCEPT !.V_g = Some(Vv), !.PIP_g = Some(pip),
                          !.alphas_g = o.alphas],
          err |-> "none", ret |-> "g"]

\* T and P exactly at the critical point of a single-component EOS
at_critical(o) == FracEq(Val(o.T), o.Tc) /\ FracEq(Val(o.P), o.Pc)

Call(Vv, fl, fg) == [V |-> Vv, force_l |-> fl, force_g |-> fg]

\* set_from_PT.  pip1 is the PIP the kernel yields for the first volume
\* handed to it, pip2 for the second.  Returns the object, the exception
\* and the calls made to set_properties_from_solution.
set_from_PT(o, Vs, only_l, only_g, pip1, pip2) ==
    LET good == good_roots(Vs, o.b)
        count == Len(good)
    IN
    IF count = 1 THEN
        LET r1 == set_properties_from_solution(o, good[1], FALSE, FALSE, pip1)
            c1 == << Call(good[1], FALSE, FALSE) >>
        IN
        IF r1.err # "none" THEN [o |-> r1.o, err |-> r1.err, calls |-> c1]
        ELSE
            LET o1 == [r1.o EXCEPT !.phase = r1.ret] IN
            IF at_critical(o1) THEN
                LET force_l == ~(o1.phase = "l")
                    force_g == ~(o1.phase = "g")
                    r2 == set_properties_from_solution(o1, good[1], force_l,
                                                       force_g, pip1)
                    c2 == Append(c1, Call(good[1], force_l, force_g))
                IN
                IF r2.err # "none"
                THEN [o |-> r2.o, err |-> r2.err, calls |-> c2]
                ELSE [o |-> [r2.o EXCEPT !.phase = "l/g"], err |-> "none",
                      calls |-> c2]
            ELSE [o |-> o1, err |-> "none", calls |-> c1]
    ELSE IF count > 1 THEN
        LET Vl == SeqMin(good)
            Vg == SeqMax(good)
            rl == IF ~only_g
                  THEN set_properties_from_solution(o, Vl, TRUE, FALSE, pip1)
                  ELSE [o |-> o, err |-> "none", ret |-> "none"]
            cl == IF ~only_g THEN << Call(Vl, TRUE, FALSE) >> ELSE << >>
        IN
        IF rl.err # "none" THEN [o |-> rl.o, err |-> rl.err, calls |-> cl]
        ELSE
            LET rg == IF ~only_l
                      THEN set_properties_from_solution(rl.o, Vg, FALSE, TRUE,
                                                        pip2)
                      ELSE [o |-> rl.o, err |-> "none", ret |-> "none"]
                cg == IF ~only_l THEN Append(cl, Call(Vg, FALSE, TRUE)) ELSE cl
            IN
            IF rg.err # "none" THEN [o |-> rg.o, err |-> rg.err, calls |-> cg]
            ELSE [o |-> [rg.o EXCEPT !.phase = "l/g"], err |-> "none",
                  calls |-> cg]
    ELSE [o |-> o, err |-> "NoAcceptableRoot", calls |-> << >>]

\* what the 'No acceptable roots were found' exception carries
root_error_info(o, Vs) ==
    [roots |-> Vs, T |-> o.T, P |-> o.P, a_alpha |-> o.a_alpha, b |-> o.b]

\* --------------------------------------------------------- the root solver
\* Root lists the numeric kernels can produce for an EOS with covolume b:
\* three real roots, one real root and a conjugate pair, a real root with
\* round-off in its imaginary part, no root above b.
three_real(b) == << Re(b + 1), Re(b + 2), Re(b + 4) >>
one_real(b) == << Re(b + 3), Cx(b + 5, 7), Cx(b + 5, -7) >>
noisy_real(b) == << Cx(b + 3, 1), Cx(b + 5, 7), Cx(b + 5, -7) >>
none_above_b(b) == << Re(b - 1), Cx(b + 5, 7), Cx(b + 5, -7) >>

ClosedLists(b) == {three_real(b), one_real(b), noisy_real(b), none_above_b(b)}
MpLists(b) == {three_real(b), one_real(b), none_above_b(b)}
\* volume_solutions_NR_low_P returns [gas root or 1j, liquid root or 1j, 1j]
LowPLists(b) == {<< Re(b + 4), Re(b + 3), J >>, << Re(b + 4), J, J >>,
                 << J, J, J >>}

\* What the Newton polish loop of volume_solutions_NR leaves behind:
\*   ok           failed = False
\*   failed_small failed = True, max_err < 5e3
\*   failed_big   failed = True, max_err >= 5e3 (1e100 after a 5% jump)
Polish == {"ok", "failed_small", "failed_big"}

Tiers == {"Cardano", "fast", "a1", "low_P", "mpmath"}

Raised == [kind |-> "raise", Vs |-> << >>, polish |-> "na"]
Roots(L, p) == [kind |-> "roots", Vs |-> L, polish |-> p]
NotCalled == [kind |-> "notcalled", Vs |-> << >>, polish |-> "na"]

\* every outcome a tier can have for one input
TierOutcomes(t, b) ==
    IF t \in {"Cardano", "fast", "a1"}
    THEN {Raised} \cup {Roots(L, p) : L \in ClosedLists(b), p \in Polish}
    ELSE IF t = "low_P"
    THEN {Raised} \cup {Roots(L, "na") : L \in LowPLists(b)}
    ELSE {Raised} \cup {Roots(L, "na") : L \in MpLists(b)}

\* a tier is a pure function: called again in the same solve it gives the
\* outcome it gave before
TierCall(t, b, memo) ==
    IF memo[t] # NotCalled THEN {memo[t]} ELSE TierOutcomes(t, b)

Returned(L, tr) == [kind |-> "roots", Vs |-> L, trace |-> tr]
Thrown(tr) == [kind |-> "raise", Vs |-> << >>, trace |-> tr]

\* root_failed of volume_solutions_NR
root_failed(Vs, b) ==
    \A i \in 1..Len(Vs) :
        ~(Vs[i].re > b /\ (Vs[i].re = 0 \/ RatioTiny(Vs[i])))

primary_tier(tries) ==
    IF tries = 0 THEN "Cardano" ELSE IF tries = 1 THEN "fast" ELSE "a1"
fallback_tier(tries) == IF tries = 0 THEN "fast" ELSE "Cardano"

\* max_err < 5e3 at the end of the third attempt
keep_unpolished(polish) == polish = "failed_small"

RECURSIVE volume_solutions_NR(_, _, _, _)
RECURSIVE NR_closed(_, _, _, _)
RECURSIVE NR_after_polish(_, _, _, _, _)

\* the tail of volume_solutions_NR, after the polish loop
NR_after_polish(q, tries, memo, tr, out) ==
    LET rf == root_failed(out.Vs, q.b)
        failed == out.polish # "ok" \/ rf
    IN
    IF failed /\ tries < 2 THEN volume_solutions_NR(q, tries + 1, memo, tr)
    ELSE IF rf THEN
        UNION {IF mo.kind = "roots"
               THEN {Returned(mo.Vs, Append(tr, "mpmath"))}
               ELSE {Thrown(Append(tr, "mpmath"))}
               : mo \in TierCall("mpmath", q.b, memo)}
    ELSE IF failed /\ tries = 2 THEN
        IF keep_unpolished(out.polish) THEN {Returned(out.Vs, tr)}
        ELSE UNION {IF lo.kind = "roots"
                    THEN {Returned(lo.Vs, Append(tr, "low_P"))}
                    ELSE {Thrown(Append(tr, "low_P"))}
                    : lo \in TierCall("low_P", q.b, memo)}
    ELSE {Returned(out.Vs, tr)}

\* the closed form of this attempt, its fallback in the except clause,
\* then the polish loop
NR_closed(q, tries, memo, tr) ==
    LET p == primary_tier(tries)
        f == fallback_tier(tries)
    IN
    UNION {
        LET m1 == [memo EXCEPT ![p] = po]
            t1 == Append(tr, p)
        IN
        IF po.kind = "roots" THEN NR_after_polish(q, tries, m1, t1, po)
        ELSE UNION {
            LET m2 == [m1 EXCEPT ![f] = fo]
                t2 == Append(t1, f)
            IN
            IF fo.kind = "roots" THEN NR_after_polish(q, tries, m2, t2, fo)
            ELSE {Thrown(t2)}
            : fo \in TierCall(f, q.b, m1)}
        : po \in TierCall(p, q.b, memo)}

\* volume_solutions_NR(T, P, b, delta, epsilon, a_alpha, tries):
\* the set of results the kernels' outcomes allow
volume_solutions_NR(q, tries, memo, tr) ==
    IF q.a_alpha = 0
    THEN {Returned(<< Re(q.b + (R * q.T) \div q.P), MinusJ, MinusJ >>, tr)}
    ELSE IF q.P < P_low THEN
        UNION {
            LET m1 == [memo EXCEPT !["low_P"] = lo]
                t1 == Append(tr, "low_P")
            IN
            IF lo.kind = "roots" THEN {Returned(lo.Vs, t1)}
            ELSE UNION {
                LET m2 == [m1 EXCEPT !["mpmath"] = mo]
                    t2 == Append(t1, "mpmath")
                IN
                IF mo.kind = "roots" THEN {Returned(mo.Vs, t2)}
                ELSE NR_closed(q, tries, m2, t2)
                : mo \in TierCall("mpmath", q.b, m1)}
            : lo \in TierCall("low_P", q.b, memo)}
    ELSE NR_closed(q, tries, memo, tr)

\* IG.volume_solutions
IG_volume_solutions(q) ==
    {Returned(<< Re((R * q.T) \div q.P), MinusJ, MinusJ >>, << >>)}

\* self.volume_solutions(T, P, b, delta, epsilon, a_alpha)
volume_solutions(o) ==
    LET q == [T |-> Val(o.T).n, P |-> Val(o.P).n, b |-> o.b,
              a_alpha |-> Val(o.a_alpha)]
    IN IF o.cls = "IG" THEN IG_volume_solutions(q)
       ELSE volume_solutions_NR(q, 0, [t \in Tiers |-> NotCalled], << >>)

\* ------------------------------------------------------------------ solve
\* a check that is content with a single input
check_one_input(o) == IsSome(o.T) \/ IsSome(o.P) \/ IsSome(o.V)

check_sufficient_inputs(o) ==
    \/ (IsSome(o.T) /\ IsSome(o.P))
    \/ (IsSome(o.T) /\ IsSome(o.V))
    \/ (IsSome(o.P) /\ IsSome(o.V))

\* values a_alpha_and_derivatives can return for the class
AlphaValues(cls) == IF cls = "IG" THEN {0} ELSE a_alphas

\* solve_T(P, V): the temperature returned, or the exception; whether
\* no_T_spec was set before it ended.
\* IG.solve_T is P*V/R.  PR.solve_T sets no_T_spec and evaluates a closed
\* form; GCEOS.solve_T (PRTranslated) divides by V*V + delta*V + epsilon and
\* by V - b before it sets no_T_spec, then runs its numeric solvers.
solve_T(o) ==
    LET Vv == Val(o.V)
        Pv == Val(o.P).n
    IN
    IF o.cls = "IG"
    THEN {[kind |-> "T", T |-> Frac(Pv * Vv, R), no_T_spec |-> TRUE]}
    ELSE IF o.cls = "PRTranslated" /\ (Den1(o, Vv) = 0 \/ Vv - o.b = 0)
    THEN {[kind |-> "raise", T |-> Frac(0, 1), no_T_spec |-> FALSE]}
    ELSE {[kind |-> "raise", T |-> Frac(0, 1), no_T_spec |-> TRUE]}
         \cup {[kind |-> "T", T |-> Frac(t, 1), no_T_spec |-> TRUE] : t \in Temps}

\* R*T/(V - b) - a_alpha/(V*V + delta*V + epsilon), as an exact fraction
P_from_TV(o, Tv, Vv, aa) ==
    Frac(R * Tv.n * Den1(o, Vv) - aa * (Vv - o.b) * Tv.d,
         (Vv - o.b) * Den1(o, Vv) * Tv.d)

Done(o, err, calls, tr, handed) ==
    [o |-> o, err |-> err, calls |-> calls, trace |-> tr, handed |-> handed,
     info |-> IF err = "NoAcceptableRoot"
              THEN Some(root_error_info(o, Val(handed))) ELSE None]

\* the call of set_from_PT that ends solve and resolve_full_alphas
finish(o, Vs, only_l, only_g, tr, pips1, pips2) ==
    {LET r == set_from_PT(o, Vs, only_l, only_g, pip1, pip2)
     IN Done(r.o, r.err, r.calls, tr, Some(Vs))
     : pip1 \in pips1, pip2 \in pips2}

\* GCEOS.solve: every result the kernels' outcomes allow
solve(o, only_l, only_g, full_alphas) ==
    IF ~check_sufficient_inputs(o)
    THEN {Done(o, "InsufficientSpec", << >>, << >>, None)}
    ELSE IF IsSome(o.V) THEN
        LET Vv == Val(o.V)
            Vs == << Re(Vv), J, J >>
        IN
        IF IsSome(o.P) THEN
            UNION {
                LET o1 == [o EXCEPT !.no_T_spec = t.no_T_spec] IN
                IF t.kind = "raise"
                THEN {Done(o1, "SolveTError", << >>, << "solve_T" >>, None)}
                ELSE UNION {
                    finish([o1 EXCEPT !.T = Some(t.T), !.a_alpha = Some(aa),
                                      !.alphas = "full"],
                           Vs, only_l, only_g, << "solve_T" >>, PIPs, PIPs)
                    : aa \in AlphaValues(o.cls)}
                : t \in solve_T(o)}
        ELSE IF ~IsSome(o.T)
        THEN {Done(o, "TypeError", << >>, << >>, None)}
        ELSE
            UNION {
                LET o1 == [o EXCEPT !.a_alpha = Some(aa), !.alphas = "full"] IN
                IF Vv - o.b = 0 \/ Den1(o, Vv) = 0
                THEN {Done(o1, "ZeroDivisionError", << >>, << >>, None)}
                ELSE
                    LET Pv == P_from_TV(o, Val(o.T), Vv, aa)
                        o2 == [o1 EXCEPT !.P = Some(Pv)]
                    IN
                    IF FracLe0(Pv)
                    THEN {Done(o2, "NegativePressure", << >>, << >>, None)}
                    ELSE finish(o2, Vs, only_l, only_g, << >>, PIPs, PIPs)
                : aa \in AlphaValues(o.cls)}
    ELSE IF ~IsSome(o.T) \/ ~IsSome(o.P)
    THEN {Done(o, "TypeError", << >>, << >>, None)}
    ELSE
        UNION {
            LET o1 == [o EXCEPT !.a_alpha = Some(aa),
                                !.alphas = IF full_alphas THEN "full"
                                           ELSE "placeholder"]
            IN
            UNION {
                IF v.kind = "raise"
                THEN {Done(o1, "RootSolverError", << >>, v.trace, None)}
                ELSE finish([o1 EXCEPT !.raw_volumes = Some(v.Vs)], v.Vs,
                            only_l, only_g, v.trace, PIPs, PIPs)
                : v \in volume_solutions(o1)}
            : aa \in AlphaValues(o.cls)}

\* the PIP the derivative kernel gives for volume Vv: the value it gave
\* before when nothing it reads has changed
PipChoices(o, Vv) ==
    IF o.alphas = "full" /\ o.V_l = Some(Vv) /\ o.alphas_l = "full"
    THEN {Val(o.PIP_l)}
    ELSE IF o.alphas = "full" /\ o.V_g = Some(Vv) /\ o.alphas_g = "full"
    THEN {Val(o.PIP_g)}
    ELSE PIPs

\* GCEOS.resolve_full_alphas
resolve_full_alphas(o) ==
    LET o1 == [o EXCEPT !.alphas = "full"]
        only_l == IsSome(o.V_l)
        only_g == IsSome(o.V_g)
    IN
    IF ~IsSome(o.raw_volumes)
    THEN {Done(o1, "AttributeError", << >>, << >>, None)}
    ELSE
        LET Vs == Val(o.raw_volumes)
            good == good_roots(Vs, o.b)
        IN
        IF Len(good) = 0
        THEN finish(o1, Vs, only_l, only_g, << >>, PIPs, PIPs)
        ELSE finish(o1, Vs, only_l, only_g, << >>,
                    PipChoices(o, SeqMin(good)), PipChoices(o, SeqMax(good)))

\* ------------------------------------------------------------ the machine
VARIABLES
    eos,        \* the EOS object's attributes
    stage,      \* "new": in __init__, before solve; "solved"; "failed"
    outcome,    \* exception raised by the last operation, or "none"
    last_op,    \* the last operation run on the object
    flags,      \* the arguments of the solve that built the object
    trace,      \* numeric solvers the solve invoked, in order: root-solver
                \* tiers and solve_T
    err_info,   \* what the exception of the last operation carries
    calls,      \* calls of set_properties_from_solution by the last operation
    handed,     \* the root list the last operation handed to set_from_PT
    before,     \* the object as it was when the last operation started
    resolves    \* calls of resolve_full_alphas so far

\* module-level state of the library, shared by every object and every thread
VARIABLES
    niter,      \* the module global niter of thermo.eos
    mp_dps,     \* mp.mp.dps, the working precision of mpmath's global context
    threads     \* per thread: the call it runs and the call's local variables

obj_vars == << eos, stage, outcome, last_op, flags, trace, err_info, calls,
               handed, before, resolves >>

lib_vars == << niter, mp_dps, threads >>

\* calls made on an object that was built earlier
VARIABLES
    sat,        \* the running Psat / Tsat call: its arguments and locals
    ret         \* the last to_TP / to_TV / to_PV / to call and what it returned

call_vars == << sat, ret >>

\* a temperature-dependent property object and the last call made on it
VARIABLES
    tdp,        \* the TDependentProperty object: its attributes
    tret        \* the last call on tdp: its arguments and what it gave back

prop_vars == << tdp, tret >>

\* a call of one of the library's functions on given arguments
VARIABLES
    fcall       \* the function, its arguments, its locals and its result

fn_vars == << fcall >>

vars == << obj_vars, lib_vars, call_vars, prop_vars, fn_vars >>

NoSat == [op |-> "none", pc |-> "idle"]

NoRet == [op |-> "none"]

\* no method of a solved object is running or has returned
CallsIdle == sat = NoSat /\ ret = NoRet

NoProperty == [cls |-> "none"]

NoCallYet == [op |-> "none"]

\* no property object has been built
PropertyIdle == tdp = NoProperty /\ tret = NoCallYet

\* no function has been called
NoFn == [op |-> "none", pc |-> "idle"]

Threads == {1, 2}

NoCall == [job |-> "none", pc |-> "idle"]

\* no thread has called into the library yet
LibraryIdle ==
    /\ niter = 0
    /\ mp_dps = 15      \* mpmath's default
    /\ threads = [t \in Threads |-> NoCall]

OptT == {None} \cup {Some(Frac(t, 1)) : t \in Temps}
OptP == {None} \cup {Some(Frac(p, 1)) : p \in Pressures}
OptV == {None} \cup {Some(v) : v \in Volumes}

\* the objects the constructors build before they call solve
InitialObjects ==
    UNION {
        {IG_init(Tc, Pc, T, P, V)}
        \cup {PR_init(Tc, Pc, b0, T, P, V) : b0 \in b0s}
        \cup {PRTranslated_init(Tc, Pc, b0, c, T, P, V) : b0 \in b0s, c \in Cs}
        : Tc \in Tcs, Pc \in Pcs, T \in OptT, P \in OptP, V \in OptV}

NoFlags == [only_l |-> FALSE, only_g |-> FALSE, full_alphas |-> TRUE]

Init ==
    /\ eos \in InitialObjects
    /\ stage = "new"
    /\ outcome = "none"
    /\ last_op = "init"
    /\ flags = NoFlags
    /\ trace = << >>
    /\ err_info = None
    /\ calls = << >>
    /\ handed = None
    /\ before = eos
    /\ resolves = 0
    /\ LibraryIdle
    /\ CallsIdle
    /\ PropertyIdle
    /\ fcall = NoFn

\* __init__ reaches self.solve(...), with the flags the specific EOS passes
Solve ==
    /\ stage = "new"
    /\ \E only_l \in BOOLEAN, only_g \in BOOLEAN, full_alphas \in BOOLEAN :
         \E r \in solve(eos, only_l, only_g, full_alphas) :
            /\ eos' = r.o
            /\ stage' = IF r.err = "none" THEN "solved" ELSE "failed"
            /\ outcome' = r.err
            /\ flags' = [only_l |-> only_l, only_g |-> only_g,
                         full_alphas |-> full_alphas]
            /\ trace' = r.trace
            /\ err_info' = r.info
            /\ calls' = r.calls
            /\ handed' = r.handed
    /\ last_op' = "solve"
    /\ before' = eos
    /\ UNCHANGED resolves
    /\ UNCHANGED << lib_vars, call_vars, prop_vars, fn_vars >>

\* obj.resolve_full_alphas() on a constructed object
ResolveFullAlphas ==
    /\ stage = "solved"
    /\ resolves < MaxResolves
    /\ \E r \in resolve_full_alphas(eos) :
            /\ eos' = r.o
            /\ outcome' = r.err
            /\ calls' = r.calls
            /\ handed' = r.handed
            /\ err_info' = r.info
    /\ last_op' = "resolve_full_alphas"
    /\ before' = eos
    /\ resolves' = resolves + 1
    /\ UNCHANGED << stage, flags, trace >>
    /\ UNCHANGED << lib_vars, call_vars, prop_vars, fn_vars >>

Next == Solve \/ ResolveFullAlphas

Spec == Init /\ [][Next]_vars

\* ------------------------------------------------------------- properties
Range(f) == {f[i] : i \in DOMAIN f}

\* |imag/real| < 1e-12 and real > b, read literally: the ratio exists
passes_filter(r, b) == r.re # 0 /\ RatioTiny(r) /\ r.re > b

FilteredVolumes(Vs, b) ==
    {Vs[k].re : k \in {i \in 1..Len(Vs) : passes_filter(Vs[i], b)}}

\* the last operation handed a root list to set_from_PT
Selected == IsSome(handed)

\* the volumes stored on the object
StoredVolumes == {Val(v) : v \in {x \in {eos.V_l, eos.V_g} : IsSome(x)}}

numerically_real_above_b(r, b) ==
    r.re > b /\ (r.im = 0 \/ (r.re # 0 /\ RatioTiny(r)))

ValidIndices(Vs, b) ==
    {i \in 1..Len(Vs) : numerically_real_above_b(Vs[i], b)}

ValidVolumes(Vs, b) == {Vs[k].re : k \in ValidIndices(Vs, b)}

SetMin(S) == CHOOSE x \in S : \A y \in S : x <= y
SetMax(S) == CHOOSE x \in S : \A y \in S : x >= y

\* C2: when two or three of the roots handed to set_from_PT are valid, the
\* liquid record is populated from the smallest valid root and the gas
\* record from the largest one, no other root is used, both records are
\* populated and phase is 'l/g'.
C2_TwoPhaseFromExtremeRoots ==
    (Selected /\ Cardinality(ValidIndices(Val(handed), eos.b)) >= 2) =>
        LET valid == ValidVolumes(Val(handed), eos.b) IN
        /\ outcome = "none"
        /\ eos.V_l = Some(SetMin(valid))
        /\ eos.V_g = Some(SetMax(valid))
        /\ Val(eos.V_l) <= Val(eos.V_g)
        /\ \A i \in 1..Len(calls) : calls[i].V \in {SetMin(valid), SetMax(valid)}
        /\ eos.phase = "l/g"

\* C3: with exactly one valid root, away from the critical point, the state
\* is single phase: PIP above 1 + 1e-14 populates only the liquid record
\* and gives phase 'l', otherwise only the gas record is populated and
\* phase is 'g'; never both and never neither.
C3_SinglePhaseByPIP ==
    (/\ Selected
     /\ Cardinality(ValidIndices(Val(handed), eos.b)) = 1
     /\ ~at_critical(eos)) =>
        LET v == SetMin(ValidVolumes(Val(handed), eos.b)) IN
        /\ outcome = "none"
        /\ \/ /\ eos.phase = "l"
              /\ eos.V_l = Some(v) /\ eos.V_g = None
              /\ Val(eos.PIP_l) > PIP_tol
           \/ /\ eos.phase = "g"
              /\ eos.V_g = Some(v) /\ eos.V_l = None
              /\ Val(eos.PIP_g) <= PIP_tol

\* the phase tag and the phase records are those the operation started with
NoPhaseWritten ==
    /\ eos.phase = before.phase
    /\ eos.V_l = before.V_l /\ eos.V_g = before.V_g
    /\ eos.PIP_l = before.PIP_l /\ eos.PIP_g = before.PIP_g

\* C4: when none of the roots handed to the phase selector is numerically
\* real with real part above b, the operation ends with the fatal 'No
\* acceptable roots' error, which carries the raw roots and T, P, a_alpha
\* and b, and no phase tag or phase record is written.
C4_NoAcceptableRootIsFatal ==
    (Selected /\ ValidIndices(Val(handed), eos.b) = {}) =>
        /\ outcome = "NoAcceptableRoot"
        /\ err_info = Some([roots |-> Val(handed), T |-> eos.T, P |-> eos.P,
                            a_alpha |-> eos.a_alpha, b |-> eos.b])
        /\ NoPhaseWritten

\* C5: in every solved state the phase tag is 'l', 'g' or 'l/g'; it is 'l/g'
\* exactly when both records are populated, 'l' exactly when only the
\* liquid record is, 'g' exactly when only the gas record is.
C5_PhaseTagMatchesRecords ==
    stage = "solved" =>
        /\ eos.phase \in {"l", "g", "l/g"}
        /\ eos.phase = "l/g" <=> (IsSome(eos.V_l) /\ IsSome(eos.V_g))
        /\ eos.phase = "l" <=> (IsSome(eos.V_l) /\ ~IsSome(eos.V_g))
        /\ eos.phase = "g" <=> (~IsSome(eos.V_l) /\ IsSome(eos.V_g))

\* how many of T, P, V the caller gave
GivenCount(o) ==
    Cardinality({k \in {"T", "P", "V"} : IsSome(o[k])})

\* C6: a solve given fewer than two of T, P, V raises the insufficient-input
\* error before any root finding or inverse solve starts, and leaves the
\* object without phase tag, V_l or V_g.
C6_InsufficientSpecRaisesFirst ==
    (last_op = "solve" /\ GivenCount(before) < 2) =>
        /\ outcome = "InsufficientSpec"
        /\ trace = << >>
        /\ ~Selected /\ calls = << >>
        /\ eos.phase = "unset" /\ eos.V_l = None /\ eos.V_g = None
        /\ eos = before

\* a solve that was given the temperature alone
C6_Witness ==
    /\ last_op = "solve" /\ stage = "failed"
    /\ IsSome(before.T) /\ ~IsSome(before.P) /\ ~IsSome(before.V)

\* a (T, V) solve whose pressure formula has no zero denominator
TVSolve ==
    /\ last_op = "solve"
    /\ IsSome(before.T) /\ IsSome(before.V) /\ ~IsSome(before.P)
    /\ Val(before.V) - before.b # 0
    /\ Den1(before, Val(before.V)) # 0

\* C7: in a (T, V) solve P is R*T/(V - b) - a_alpha/(V*V + delta*V + epsilon);
\* a value <= 0 makes the solve raise ValueError, with the pressure left as
\* computed and no phase record populated; a value > 0 does not.
C7_NegativePressureIsFatal ==
    TVSolve =>
        LET Tv == Val(before.T)
            Vv == Val(before.V)
            d0 == Vv - before.b
            d1 == Vv * Vv + before.delta * Vv + before.epsilon
            num == (R * Tv.n * d1 - Val(eos.a_alpha) * d0 * Tv.d) * (d0 * d1 * Tv.d)
            Pv == Val(eos.P)
        IN
        \* P == R*T/d0 - a_alpha/d1
        /\ Pv.n * (d0 * d1 * Tv.d)
               = Pv.d * (R * Tv.n * d1 - Val(eos.a_alpha) * d0 * Tv.d)
        /\ num <= 0 =>
              /\ outcome = "NegativePressure"
              /\ eos.V_l = None /\ eos.V_g = None /\ eos.phase = "unset"
              /\ calls = << >> /\ ~Selected
        /\ num > 0 => outcome # "NegativePressure"

\* a (T, V) solve that raised on a pressure <= 0
C7_Witness ==
    /\ TVSolve /\ outcome = "NegativePressure"
    /\ Val(eos.P).n <= 0

\* a solve by T and P of an EOS that uses the root solver chain
ChainSolve ==
    /\ last_op = "solve"
    /\ ~IsSome(before.V) /\ IsSome(before.T) /\ IsSome(before.P)
    /\ eos.cls # "IG"
    /\ Val(eos.a_alpha) # 0

ClosedForms == {"Cardano", "fast", "a1"}

\* C8: a (T, P) solve surfaces a root-finding error only after every tier
\* of the chain (closed forms with Newton polish, low-pressure solver,
\* arbitrary-precision solver) has been attempted; and what a tier that
\* found no root above b produced is never returned as the result.
C8_ErrorOnlyAfterEveryTier ==
    ChainSolve =>
        /\ outcome = "RootSolverError" =>
              /\ Range(trace) \cap ClosedForms # {}
              /\ "low_P" \in Range(trace)
              /\ "mpmath" \in Range(trace)
        /\ IsSome(eos.raw_volumes) =>
              ValidIndices(Val(eos.raw_volumes), eos.b) # {}

\* C9: with a_alpha == 0 the root solver returns b + R*T/P and two
\* placeholders for every T and P, without invoking any tier, and the
\* resulting state has that root as its only phase volume.
C9_ZeroAlphaShortCircuit ==
    (/\ last_op = "solve"
     /\ ~IsSome(before.V) /\ IsSome(before.T) /\ IsSome(before.P)
     /\ Val(eos.a_alpha) = 0) =>
        LET root == eos.b + (R * Val(eos.T).n) \div Val(eos.P).n IN
        /\ trace = << >>
        /\ eos.raw_volumes = Some(<< Re(root), MinusJ, MinusJ >>)
        /\ outcome = "none"
        /\ StoredVolumes = {root}

\* C10: a solve at T == Tc and P == Pc of a single-component EOS ends with
\* both records populated from the same root, V_l == V_g, and phase 'l/g',
\* whatever root list with a valid root the root solver returned.  Stated
\* for solves by T and P that ask for both phases, of an EOS with b > 0.
C10_CriticalPointBothPhases ==
    (/\ last_op = "solve"
     /\ ~IsSome(before.V) /\ IsSome(before.T) /\ IsSome(before.P)
     /\ at_critical(before)
     /\ ~flags.only_l /\ ~flags.only_g
     /\ eos.b > 0
     /\ IsSome(eos.raw_volumes)
     /\ ValidIndices(Val(eos.raw_volumes), eos.b) # {}) =>
        /\ outcome = "none"
        /\ IsSome(eos.V_l) /\ IsSome(eos.V_g)
        /\ eos.V_l = eos.V_g
        /\ eos.phase = "l/g"

\* C11: solve accepts a query only when exactly two of T, P, V are given; a
\* query that gives all three is rejected with an error rather than solved.
C11_ThreeInputsRejected ==
    (last_op = "solve" /\ GivenCount(before) = 3) => stage = "failed"

\* C12: a solved state is immutable: resolve_full_alphas leaves the object
\* it is called on unchanged (T, P, a_alpha and its derivatives, phase,
\* every phase record).
C12_ResolveLeavesStateUnchanged ==
    last_op = "resolve_full_alphas" => eos = before

(***************************************************************************)
(* Library calls made from several threads, each on an object of its own.  *)
(* A call's numerics are fixed by the object it is made on; the profile    *)
(* records that behaviour, so a call run alone is deterministic.           *)
(***************************************************************************)

\* bound on how many nested solves come out with every root equal to 0 or 1
MaxDoublings == 2

dps_default == 30        \* dps=30 in the signature
dps_extra == 40          \* mp.mp.dps = dps + 40
dps_extra_low_P == 400   \* mp.mp.dps = dps + 400 when P < 1e-10
extraprec0 == 15         \* extraprec = 15
extraprec_step == 20     \* extraprec += 20
polyroots_tries == 8     \* for i in range(8)
niter_kill == 3          \* niter > 3 and ...

\* the trial pressures / temperatures, shortened to two
guesses == << 1, 2 >>

\* per guess: the evaluation at which Newton converges, and the evaluation
\* (0: none) at which err/(P*fprime) falls in (0.40, 0.55)
PDiscProfiles ==
    { << [conv |-> 4, band |-> 2], [conv |-> 1, band |-> 0] >>,
      << [conv |-> 4, band |-> 4], [conv |-> 2, band |-> 0] >> }

\* the guess from which secant converges (0: none)
TDiscProfiles == {0, 1}

MpProfile(tp, nd, dg, rs) ==
    [tinyP |-> tp, need |-> nd, degen |-> dg, rescue |-> rs]

\* tinyP: P < 1e-10; need: the working precision polyroots needs to converge;
\* degen: how many nested solves return only roots equal to 0 or 1;
\* rescue: what still works once polyroots has failed
MpProfiles ==
    { MpProfile(FALSE, 100, 0, "none"),
      MpProfile(TRUE, 500, 0, "none"),
      MpProfile(FALSE, 205, MaxDoublings, "none"),
      MpProfile(FALSE, 300, 1, "none"),
      MpProfile(FALSE, 500, 0, "polyroots"),
      MpProfile(FALSE, 500, 0, "findroot"),
      MpProfile(FALSE, 500, 0, "none") }

Jobs ==
    { [job |-> "P_discriminant_zero", prof |-> p] : p \in PDiscProfiles }
    \cup { [job |-> "T_discriminant_zero_l", prof |-> p] : p \in TDiscProfiles }
    \cup { [job |-> "volume_solutions_mpmath", prof |-> p] : p \in MpProfiles }

\* the frame of a call at its first statement
StartCall(j) ==
    [job |-> j.job, prof |-> j.prof,
     pc |-> IF j.job = "volume_solutions_mpmath" THEN "set_dps" ELSE "reset",
     g |-> 1, k |-> 1, tmp |-> 0,
     depth |-> 0, i |-> 0, extraprec |-> extraprec0, prec |-> 0,
     roots_none |-> TRUE, raises |-> 0, result |-> << >>]

Finish(l, res) == [l EXCEPT !.pc = "done", !.result = res]

Globals(n, d) == [niter |-> n, mp_dps |-> d]

\* one step of _P_discriminant_zero; G is the module state it runs against
P_discriminant_zero(l, G) ==
    CASE l.pc = "reset" ->
           [l |-> [l EXCEPT !.pc = "guess"], G |-> [G EXCEPT !.niter = 0]]
      [] l.pc = "guess" ->
           IF l.g > Len(guesses)
           THEN [l |-> Finish(l, << "UnboundLocalError" >>), G |-> G]
           ELSE [l |-> [l EXCEPT !.pc = "load", !.k = 1],
                 G |-> [G EXCEPT !.niter = 0]]
      [] l.pc = "load" ->
           [l |-> [l EXCEPT !.pc = "store", !.tmp = G.niter], G |-> G]
      [] l.pc = "store" ->
           [l |-> [l EXCEPT !.pc = "test"], G |-> [G EXCEPT !.niter = l.tmp + 1]]
      [] l.pc = "test" ->
           IF G.niter > niter_kill /\ l.prof[l.g].band = l.k
           THEN [l |-> [l EXCEPT !.pc = "guess", !.g = l.g + 1], G |-> G]
           ELSE IF l.prof[l.g].conv = l.k
           THEN [l |-> Finish(l, << "P_disc", l.g >>), G |-> G]
           ELSE [l |-> [l EXCEPT !.pc = "load", !.k = l.k + 1], G |-> G]

\* one step of T_discriminant_zero_l
T_discriminant_zero_l(l, G) ==
    CASE l.pc = "reset" ->
           [l |-> [l EXCEPT !.pc = "guess"], G |-> [G EXCEPT !.niter = 0]]
      [] l.pc = "guess" ->
           IF l.g > Len(guesses)
           THEN [l |-> Finish(l, << "UnboundLocalError" >>), G |-> G]
           ELSE [l |-> [l EXCEPT !.pc = "secant"], G |-> [G EXCEPT !.niter = 0]]
      [] l.pc = "secant" ->
           IF l.prof = l.g
           THEN [l |-> Finish(l, << "T_disc", l.g >>), G |-> G]
           ELSE [l |-> [l EXCEPT !.pc = "guess", !.g = l.g + 1], G |-> G]

RECURSIVE Doubled(_, _)
\* dps of the frame at the given depth: every nested call passes dps*2
Doubled(dps, depth) == IF depth = 0 THEN dps ELSE Doubled(2 * dps, depth - 1)

\* polyroots converges when the context precision and extraprec suffice
polyroots_converges(l, G) == G.mp_dps + l.extraprec >= l.prof.need

\* an exception leaves the innermost frame: the enclosing frame's bare except
\* catches it, with roots already bound there
Unwind(l, exc) ==
    IF l.depth = 0 THEN Finish(l, << exc >>)
    ELSE [l EXCEPT !.pc = "fallback", !.depth = l.depth - 1,
                   !.roots_none = FALSE]

\* one step of volume_solutions_mpmath
volume_solutions_mpmath(l, G) ==
    CASE l.pc = "set_dps" ->
           [l |-> [l EXCEPT !.pc = IF l.prof.tinyP THEN "set_dps_low_P"
                                   ELSE "coeffs"],
            G |-> [G EXCEPT !.mp_dps = Doubled(dps_default, l.depth) + dps_extra]]
      [] l.pc = "set_dps_low_P" ->
           [l |-> [l EXCEPT !.pc = "coeffs"],
            G |-> [G EXCEPT !.mp_dps =
                      Doubled(dps_default, l.depth) + dps_extra_low_P]]
      [] l.pc = "coeffs" ->
           [l |-> [l EXCEPT !.pc = "polyroots", !.prec = G.mp_dps, !.i = 0,
                            !.extraprec = extraprec0, !.roots_none = TRUE],
            G |-> G]
      [] l.pc = "polyroots" ->
           IF polyroots_converges(l, G)
           THEN IF l.depth < l.prof.degen
                THEN [l |-> [l EXCEPT !.pc = "set_dps", !.depth = l.depth + 1,
                                      !.raises = l.raises + 1],
                      G |-> G]
                ELSE [l |-> Finish(l, << "roots", l.prec, G.mp_dps >>), G |-> G]
           ELSE IF l.i = polyroots_tries - 1
           THEN [l |-> [l EXCEPT !.pc = "fallback",
                                 !.extraprec = l.extraprec + extraprec_step,
                                 !.raises = l.raises + 1],
                 G |-> G]
           ELSE [l |-> [l EXCEPT !.i = l.i + 1,
                                 !.extraprec = l.extraprec + extraprec_step,
                                 !.raises = l.raises + 1],
                 G |-> G]
      [] l.pc = "fallback" ->
           IF l.prof.rescue = "polyroots"
           THEN [l |-> Finish(l, << "roots", l.prec, G.mp_dps >>), G |-> G]
           ELSE IF l.roots_none
           THEN [l |-> [l EXCEPT !.pc = "findroot"], G |-> G]
           ELSE [l |-> Finish(l, << "roots 0 or 1", l.prec >>), G |-> G]
      [] l.pc = "findroot" ->
           IF l.prof.rescue = "findroot"
           THEN [l |-> Finish(l, << "hits", G.mp_dps >>), G |-> G]
           ELSE [l |-> Unwind(l, "ValueError"), G |-> G]

Step(l, G) ==
    CASE l.job = "P_discriminant_zero" -> P_discriminant_zero(l, G)
      [] l.job = "T_discriminant_zero_l" -> T_discriminant_zero_l(l, G)
      [] l.job = "volume_solutions_mpmath" -> volume_solutions_mpmath(l, G)

Running(t) == threads[t].pc \notin {"idle", "done"}

\* a thread calls one of the three methods on its own object
ThreadCall(t) ==
    /\ threads[t].pc = "idle"
    /\ \E j \in Jobs : threads' = [threads EXCEPT ![t] = StartCall(j)]
    /\ UNCHANGED << niter, mp_dps, obj_vars, call_vars, prop_vars, fn_vars >>

\* the interpreter runs the next statement of thread t
ThreadStep(t) ==
    /\ Running(t)
    /\ LET r == Step(threads[t], Globals(niter, mp_dps)) IN
         /\ threads' = [threads EXCEPT ![t] = r.l]
         /\ niter' = r.G.niter
         /\ mp_dps' = r.G.mp_dps
    /\ UNCHANGED << obj_vars, call_vars, prop_vars, fn_vars >>

InitThreads ==
    /\ Init
    /\ eos = IG_init(2, 4, None, None, None)

NextThreads == \E t \in Threads : ThreadCall(t) \/ ThreadStep(t)

SpecThreads == InitThreads /\ [][NextThreads]_vars

RECURSIVE RunAlone(_, _)
\* the call run to its end with no other thread touching the module state
RunAlone(l, G) ==
    IF l.pc = "done" THEN l.result
    ELSE RunAlone(Step(l, G).l, Step(l, G).G)

Sequential(l) ==
    RunAlone(StartCall([job |-> l.job, prof |-> l.prof]), Globals(0, 15))

\* C13: calls made concurrently from several threads on different objects
\* give, under every interleaving, the results and errors the same calls
\* give when run one after another.
C13_ConcurrentEqualsSequential ==
    \A t \in Threads :
        threads[t].pc = "done" => threads[t].result = Sequential(threads[t])

\* C14: the arbitrary-precision solver raises its precision only a bounded
\* number of times, the cap of its retry loop, before it returns or fails.
C14_PrecisionRaisesCapped ==
    \A t \in Threads :
        threads[t].job = "volume_solutions_mpmath"
            => threads[t].raises <= polyroots_tries

(***************************************************************************)
(* The saturation solvers Psat(T) and Tsat(P).  The tiers a call starts    *)
(* are logged in order; what each numeric tier finds is an oracle.         *)
(***************************************************************************)

\* where T lies: "too_low": x beyond Psat_ranges_low[-1]; "underflow":
\* exp(y) rounds to 0.0; "overflow": exp(y) overflows; "normal";
\* "near_critical": Tr > 0.999; "critical": T == Tc; "above": T > Tc
TRanges ==
    {"too_low", "underflow", "overflow", "normal", "near_critical",
     "critical", "above"}

\* the bisection brackets tried after Newton
brackets == << 1, 2, 3, 4 >>

Log(s, tier) == [s EXCEPT !.tiers = Append(s.tiers, tier)]

Return(s) == [s EXCEPT !.pc = "done", !.outcome = "value"]

Raise(s, exc) == [s EXCEPT !.pc = "done", !.outcome = exc]

Psat_call(T, polish, guess) ==
    [op |-> "Psat", T |-> T, polish |-> polish, guess |-> guess,
     pc |-> "start", tiers |-> << >>, k |-> 1, outcome |-> "running"]

\* the successors of one step of Psat
Psat(s) ==
    CASE s.pc = "start" ->
           IF s.T = "critical" THEN {Return(s)}
           ELSE {[s EXCEPT !.pc = "fit"]}
      [] s.pc = "fit" ->
           LET f == Log(s, "fit") IN
           IF s.T \in {"too_low", "underflow"} /\ ~s.polish
           THEN {Raise(f, "NoSolutionError")}
           ELSE {[f EXCEPT !.pc = "polish",
                           !.polish = s.polish
                                      \/ s.T \in {"too_low", "overflow"}]}
      [] s.pc = "polish" ->
           IF ~s.polish THEN {Return(s)}
           ELSE IF s.T = "above" THEN {Raise(s, "ValueError")}
           ELSE {[s EXCEPT !.pc = "newton"]}
      [] s.pc = "newton" ->
           LET n == Log(s, "newton") IN
           {Return(n), [n EXCEPT !.pc = "bisect", !.k = 1]}
      [] s.pc = "bisect" ->
           LET b == IF s.k = 1 THEN Log(s, "bisection") ELSE s IN
           {Return(b),
            IF s.k = Len(brackets) THEN [b EXCEPT !.pc = "scan"]
            ELSE [b EXCEPT !.k = s.k + 1]}
      [] s.pc = "scan" ->
           {Return(s), Raise(s, "ValueError"), Raise(s, "brenth error"),
            Raise(s, "to_TP error")}

Tsat_call(polish) ==
    [op |-> "Tsat", T |-> "normal", polish |-> polish, guess |-> FALSE,
     pc |-> "brenth", tiers |-> << >>, k |-> 1, outcome |-> "running"]

\* the successors of one step of Tsat
Tsat(s) ==
    CASE s.pc = "brenth" ->
           \* brenth on Psat(T) - P, three brackets; only the first result is
           \* checked against the fugacity residual
           LET b == IF s.k = 1 THEN Log(Log(s, "bisection"), "fit") ELSE s IN
           (IF s.k = 1 THEN {Return(b), [b EXCEPT !.pc = "newton", !.k = 1]}
            ELSE {Return(b)})
           \cup {IF s.k = 3 THEN [b EXCEPT !.pc = "newton", !.k = 1]
                 ELSE [b EXCEPT !.k = s.k + 1]}
      [] s.pc = "newton" ->
           LET n == IF s.k = 1 THEN Log(s, "newton") ELSE s IN
           IF s.k < 4
           THEN {Return(n), [n EXCEPT !.k = s.k + 1]}
           ELSE {[n EXCEPT !.pc = "check"], [n EXCEPT !.pc = "last_brenth"]}
      [] s.pc = "check" ->
           {Return(s), Raise(s, "AttributeError"),
            [s EXCEPT !.pc = "last_brenth"]}
      [] s.pc = "last_brenth" ->
           LET b == Log(s, "bisection") IN
           {Return(b), Raise(b, "brenth error")}

\* obj.Psat(T, polish, guess)
PsatCall ==
    /\ sat.pc = "idle"
    /\ \E T \in TRanges, polish \in BOOLEAN, guess \in BOOLEAN :
          sat' = Psat_call(T, polish, guess)
    /\ UNCHANGED << obj_vars, lib_vars, ret, prop_vars, fn_vars >>

PsatStep ==
    /\ sat.op = "Psat"
    /\ sat.pc # "done"
    /\ sat' \in Psat(sat)
    /\ UNCHANGED << obj_vars, lib_vars, ret, prop_vars, fn_vars >>

\* obj.Tsat(P, polish)
TsatCall ==
    /\ sat.pc = "idle"
    /\ \E polish \in BOOLEAN : sat' = Tsat_call(polish)
    /\ UNCHANGED << obj_vars, lib_vars, ret, prop_vars, fn_vars >>

TsatStep ==
    /\ sat.op = "Tsat"
    /\ sat.pc # "done"
    /\ sat' \in Tsat(sat)
    /\ UNCHANGED << obj_vars, lib_vars, ret, prop_vars, fn_vars >>

InitSat ==
    /\ Init
    /\ eos = PR_init(2, 4, 1, None, None, None)

NextSat == PsatCall \/ PsatStep \/ TsatCall \/ TsatStep

SpecSat == InitSat /\ [][NextSat]_vars

\* position of the first entry of a tier in the log (0: never started)
First(tiers, tier) ==
    IF \E i \in 1..Len(tiers) : tiers[i] = tier
    THEN CHOOSE i \in 1..Len(tiers) :
            tiers[i] = tier /\ \A j \in 1..(i - 1) : tiers[j] # tier
    ELSE 0

\* fit, then Newton, then bisection, each started
AllTiersInOrder(tiers) ==
    /\ 0 < First(tiers, "fit")
    /\ First(tiers, "fit") < First(tiers, "newton")
    /\ First(tiers, "newton") < First(tiers, "bisection")

Failed(s) == s.pc = "done" /\ s.outcome # "value"

\* C15: Psat and Tsat declare failure only after the fit, Newton on the
\* fugacity difference and bisection have been attempted, in that order.
C15_FailureOnlyAfterAllTiers ==
    Failed(sat) => AllTiersInOrder(sat.tiers)

(***************************************************************************)
(* to_TP, to_TV, to_PV and to: an object at other specifications.          *)
(***************************************************************************)

\* x != self.x, where the attribute may be None
ne(x, attr) == attr = None \/ x # Val(attr)

\* T != self.T for temperatures and pressures, compared as numbers
ne_frac(x, attr) == attr = None \/ x.n * Val(attr).d # Val(attr).n * x.d

\* self.__class__(T=T, P=P, V=V, Tc=self.Tc, Pc=self.Pc, omega=self.omega,
\* **self.kwargs): the constructor runs up to and including self.solve()
class_call(o, T, P, V) ==
    LET new == CASE o.cls = "IG" -> IG_init(o.Tc, o.Pc, T, P, V)
                 [] o.cls = "PR" -> PR_init(o.Tc, o.Pc, o.b, T, P, V)
                 [] o.cls = "PRTranslated" ->
                      PRTranslated_init(o.Tc, o.Pc, o.b + o.c, o.c, T, P, V)
    IN { [is_self |-> FALSE, obj |-> r.o, err |-> r.err] :
            r \in solve(new, FALSE, FALSE, TRUE) }

self_returned(o) == { [is_self |-> TRUE, obj |-> o, err |-> "none"] }

always_new_TP(o, T, P) == class_call(o, Some(T), Some(P), None)

to_TP(o, T, P) ==
    IF ne_frac(T, o.T) \/ ne_frac(P, o.P)
    THEN class_call(o, Some(T), Some(P), None)
    ELSE self_returned(o)

to_TV(o, T, V) ==
    IF ne_frac(T, o.T) \/ ne(V, o.V)
    THEN class_call(o, Some(T), None, Some(V))
    ELSE self_returned(o)

to_PV(o, P, V) ==
    IF ne_frac(P, o.P) \/ ne(V, o.V)
    THEN class_call(o, None, Some(P), Some(V))
    ELSE self_returned(o)

to(o, T, P, V) ==
    IF IsSome(T) /\ IsSome(P) THEN to_TP(o, Val(T), Val(P))
    ELSE IF IsSome(T) /\ IsSome(V) THEN to_TV(o, Val(T), Val(V))
    ELSE IF IsSome(P) /\ IsSome(V) THEN to_PV(o, Val(P), Val(V))
    ELSE class_call(o, T, P, V)

Own(attr) == IF IsSome(attr) THEN {Val(attr)} ELSE {}

\* the arguments a caller may pass: a fresh value, or the object's own
ArgT == {Frac(MaxT, 1)} \cup Own(eos.T)
ArgP == {Frac(1, 1)} \cup Own(eos.P)
ArgV == {3} \cup Own(eos.V)

Returned_to(op, T, P, V, r) ==
    [op |-> op, T |-> T, P |-> P, V |-> V,
     is_self |-> r.is_self, obj |-> r.obj, err |-> r.err]

\* what a to-call leaves behind: the object it was called on is not written
ToFrame(op) ==
    /\ last_op' = op
    /\ before' = eos
    /\ UNCHANGED << eos, stage, outcome, flags, trace, err_info, calls,
                    handed, resolves >>
    /\ UNCHANGED << lib_vars, sat, prop_vars, fn_vars >>

To_TP ==
    /\ stage = "solved" /\ ret = NoRet
    /\ \E T \in ArgT, P \in ArgP : \E r \in to_TP(eos, T, P) :
          ret' = Returned_to("to_TP", Some(T), Some(P), None, r)
    /\ ToFrame("to_TP")

To_TV ==
    /\ stage = "solved" /\ ret = NoRet
    /\ \E T \in ArgT, V \in ArgV : \E r \in to_TV(eos, T, V) :
          ret' = Returned_to("to_TV", Some(T), None, Some(V), r)
    /\ ToFrame("to_TV")

To_PV ==
    /\ stage = "solved" /\ ret = NoRet
    /\ \E P \in ArgP, V \in ArgV : \E r \in to_PV(eos, P, V) :
          ret' = Returned_to("to_PV", None, Some(P), Some(V), r)
    /\ ToFrame("to_PV")

To ==
    /\ stage = "solved" /\ ret = NoRet
    /\ \E T \in {None, Some(Frac(MaxT, 1))}, P \in {None, Some(Frac(1, 1))},
          V \in {None, Some(3)} :
          \E r \in to(eos, T, P, V) :
             ret' = Returned_to("to", T, P, V, r)
    /\ ToFrame("to")

\* objects built with two of T, P, V
InitTo ==
    /\ Init
    /\ GivenCount(eos) = 2
    /\ eos.T \in {None, Some(Frac(1, 1))}
    /\ eos.P \in {None, Some(Frac(4, 1))}
    /\ eos.V \in {None, Some(1)}
    /\ eos.b >= 0

\* the constructors call self.solve() without arguments
Construct == Solve /\ flags' = NoFlags

NextTo == Construct \/ To_TP \/ To_TV \/ To_PV \/ To

SpecTo == InitTo /\ [][NextTo]_vars

ToOps == {"to_TP", "to_TV", "to_PV", "to"}

\* the variant a call ends in: to() picks it from the specs it was given
Variant(r) ==
    IF r.op # "to" THEN r.op
    ELSE IF IsSome(r.T) /\ IsSome(r.P) THEN "to_TP"
    ELSE IF IsSome(r.T) /\ IsSome(r.V) THEN "to_TV"
    ELSE IF IsSome(r.P) /\ IsSome(r.V) THEN "to_PV"
    ELSE "none"

\* the two specs of the call equal the object's
SpecsMatch(r, o) ==
    CASE Variant(r) = "to_TP" -> ~ne_frac(Val(r.T), o.T) /\ ~ne_frac(Val(r.P), o.P)
      [] Variant(r) = "to_TV" -> ~ne_frac(Val(r.T), o.T) /\ ~ne(Val(r.V), o.V)
      [] Variant(r) = "to_PV" -> ~ne_frac(Val(r.P), o.P) /\ ~ne(Val(r.V), o.V)
      [] OTHER -> FALSE

\* the returned object was solved at the two specs of the call
SolvedAt(r) ==
    CASE Variant(r) = "to_TP" -> r.obj.T = r.T /\ r.obj.P = r.P
      [] Variant(r) = "to_TV" -> r.obj.T = r.T /\ r.obj.V = r.V
      [] Variant(r) = "to_PV" -> r.obj.P = r.P /\ r.obj.V = r.V
      [] OTHER -> FALSE

\* C16: a to_TP / to_TV / to_PV / to call that returns gives back the very
\* object it was called on when the two specs equal the object's, and
\* otherwise a new object of the same class, with the same Tc, Pc and
\* kwargs, solved at the specs of the matching variant; the object it was
\* called on is unchanged either way.
C16_ToReturnsSelfOrNewObject ==
    (last_op \in ToOps /\ ret.err = "none") =>
        /\ eos = before
        /\ SpecsMatch(ret, eos) => ret.is_self
        /\ ~SpecsMatch(ret, eos) =>
              /\ ~ret.is_self
              /\ ret.obj.cls = eos.cls
              /\ ret.obj.Tc = eos.Tc /\ ret.obj.Pc = eos.Pc
              /\ ret.obj.c = eos.c /\ ret.obj.b = eos.b
              /\ ret.obj.phase # "unset"
              /\ SolvedAt(ret)

C16_Witness ==
    /\ last_op = "to" /\ ret.err = "none" /\ ~ret.is_self
    /\ Variant(ret) = "to_TV" /\ ret.obj.phase \in {"l", "g"}

\* ---------------------------------------------------------------------
\* TDependentProperty (thermo/utils/t_dependent_property.py)
\* ---------------------------------------------------------------------

POLY_FIT == "POLY_FIT"

RAISE_PROPERTY_CALCULATION_ERROR == FALSE

property_min == 0
property_max == 10000

\* temperatures the calls are made at
TDPTemps == {1, 3}

\* dictionaries: functions with a finite domain of keys
EmptyDict == [k \in {} |-> 0]

Put(d, k, v) == [x \in DOMAIN d \cup {k} |-> IF x = k THEN v ELSE d[x]]

\* what a call gives back: a value (None included) or an exception
Ok(v) == [exc |-> "none", val |-> v]

Exc(e) == [exc |-> e, val |-> None]

\* the user functions handed to add_method: a sensible one, one whose
\* values are negative, one that divides by zero
Fs == {"lin", "neg", "raises"}

f(kind, T) ==
    CASE kind = "lin" -> Ok(Some(10 * T))
      [] kind = "neg" -> Ok(Some(0 - T))
      [] OTHER        -> Exc("ZeroDivisionError")

\* the correlation model of add_correlation: DIPPR100 with A and B
DIPPR100(T, kwargs) == Ok(Some(kwargs.A + kwargs.B * T))

\* a call's outcome r together with the object o the call leaves behind
Left(r, o) == [r |-> r, o |-> o]

\* interpolate(T, name): the interpolator is interp1d(Ts, properties,
\* fill_value='extrapolate') on two points, built on the first call for
\* the name and kept in tabular_data_interpolators
interpolate(o, T, name) ==
    LET tool == IF name \in DOMAIN o.tabular_data_interpolators
                    THEN o.tabular_data_interpolators[name]
                    ELSE o.tabular_data[name]
        Ts == tool[1]
        properties == tool[2]
    IN  Left(Ok(Some(properties[1]
                     + ((properties[2] - properties[1]) * (T - Ts[1]))
                       \div (Ts[2] - Ts[1]))),
             [o EXCEPT !.tabular_data_interpolators = Put(@, name, tool)])

_base_calculate(o, T, method) ==
    IF method \in DOMAIN o.tabular_data THEN interpolate(o, T, method)
    ELSE IF method \in DOMAIN o.local_methods
        THEN Left(f(o.local_methods[method], T), o)
    ELSE IF method \in DOMAIN o.correlations
        THEN Left(DIPPR100(T, o.correlations[method]), o)
    ELSE Left(Exc("ValueError"), o)     \* "Unknown method; methods are ..."

calculate(o, T, method) == _base_calculate(o, T, method)

test_property_validity(prop) ==
    IF prop < property_min THEN FALSE
    ELSE IF prop > property_max THEN FALSE
    ELSE TRUE

test_method_validity(o, T, method) ==
    IF method \in DOMAIN o.T_limits
        THEN Ok(o.T_limits[method][1] <= T /\ T <= o.T_limits[method][2])
    ELSE IF method = POLY_FIT THEN Ok(TRUE)
    ELSE IF method \in DOMAIN o.tabular_data
        THEN IF o.tabular_extrapolation_permitted THEN Ok(TRUE)
             ELSE LET Ts == o.tabular_data[method][1]
                  IN  Ok(Ts[1] < T /\ T < Ts[Len(Ts)])
    ELSE Exc("ValueError")      \* "method '%s' not valid"

\* _get_extrapolation_coeffs for 'constant': the values at the two limits,
\* None where calculate raised
_get_extrapolation_coeffs(o, extrapolation, method) ==
    LET Tmin == o.T_limits[method][1]
        Tmax == o.T_limits[method][2]
        lo == calculate(o, Tmin, method)
        hi == calculate(lo.o, Tmax, method)
    IN  Left(<< IF lo.r.exc # "none" THEN None ELSE lo.r.val,
                IF hi.r.exc # "none" THEN None ELSE hi.r.val >>,
             hi.o)

\* extrapolate(T, method), with the coefficients it caches under
\* (extrapolation, method)
extrapolate(o, T, method) ==
    IF T < 0 THEN Left(Exc("ValueError"), o)
    ELSE IF method \notin DOMAIN o.T_limits THEN Left(Exc("KeyError"), o)
    ELSE LET T_low == o.T_limits[method][1]
             T_high == o.T_limits[method][2]
         IN
         IF ~(T <= T_low \/ T >= T_high) THEN Left(Exc("ValueError"), o)
         ELSE
         LET low == T <= T_low
             key == << Val(o._extrapolation), method >>
             cached == key \in DOMAIN o.extrapolation_coeffs
             got == _get_extrapolation_coeffs(o, Val(o._extrapolation), method)
             coeffs == IF cached THEN o.extrapolation_coeffs[key] ELSE got.r
             o2 == IF cached THEN o
                   ELSE [got.o EXCEPT
                            !.extrapolation_coeffs = Put(@, key, coeffs)]
             v == IF low THEN coeffs[1] ELSE coeffs[2]
         IN  IF v = None THEN Left(Exc("ValueError"), o2)
             ELSE Left(Ok(v), o2)

\* what T_dependent_property does where the calculation gave no value
no_value == IF RAISE_PROPERTY_CALCULATION_ERROR THEN Exc("RuntimeError")
            ELSE Ok(None)

T_dependent_property(o, T) ==
    LET method == o._method IN
    IF method = Some(POLY_FIT) THEN calculate(o, T, POLY_FIT)
    ELSE IF method = None THEN Left(no_value, o)
    ELSE
    LET m == Val(method)
        in_range == IF m \in DOMAIN o.T_limits
                        THEN Ok(o.T_limits[m][1] <= T /\ T <= o.T_limits[m][2])
                        ELSE test_method_validity(o, T, m)
    IN
    IF in_range.exc # "none" THEN Left(in_range, o)
    ELSE IF in_range.val
        THEN LET prop == calculate(o, T, m) IN
             IF prop.r.exc # "none" THEN Left(no_value, prop.o)
             ELSE IF test_property_validity(Val(prop.r.val)) THEN prop
             ELSE Left(no_value, prop.o)
    ELSE IF o._extrapolation # None
        THEN LET e == extrapolate(o, T, m) IN
             IF e.r.exc # "none" THEN Left(no_value, e.o) ELSE e
    ELSE Left(no_value, o)

\* the method setter without its availability check
unchecked_setter(o, method) ==
    Left(Ok(None), [o EXCEPT !.T_cached = None, !._method = method])

\* obj.method = method; method is None or Some(name)
method_setter(o, method) ==
    IF /\ method # None
       /\ Val(method) \notin o.all_methods
       /\ Val(method) # POLY_FIT
        THEN Left(Exc("ValueError"), o)
    ELSE Left(Ok(None), [o EXCEPT !.T_cached = None, !._method = method])

\* obj.extrapolation = extrapolation, for a setting without '|'
extrapolation_setter(o, extrapolation) ==
    Left(Ok(None), [o EXCEPT !._extrapolation = extrapolation])

add_correlation(o, name, Tmin, Tmax, kwargs) ==
    IF name \in o.all_methods THEN Left(Exc("ValueError"), o)
    ELSE method_setter(
             [o EXCEPT !.T_limits = Put(@, name, << Tmin, Tmax >>),
                       !.all_methods = @ \cup {name},
                       !.correlations = Put(@, name, kwargs)],
             Some(name))

add_method(o, fn, Tmin, Tmax, name) ==
    Left(Ok(None),
         [o EXCEPT !.local_methods = Put(@, name, fn),
                   !._method = Some(name),
                   !.T_cached = None,
                   !.all_methods = @ \cup {name},
                   !.T_limits = Put(@, name, << Tmin, Tmax >>)])

add_tabular_data(o, Ts, properties, name) ==
    IF \E i \in DOMAIN properties : ~test_property_validity(properties[i])
        THEN Left(Exc("ValueError"), o)
    ELSE IF \E i \in 1..(Len(Ts) - 1) : ~(Ts[i + 1] > Ts[i])
        THEN Left(Exc("ValueError"), o)
    ELSE method_setter(
             [o EXCEPT !.tabular_data = Put(@, name, << Ts, properties >>),
                       !.T_limits = Put(@, name, << Ts[1], Ts[Len(Ts)] >>),
                       !.all_methods = @ \cup {name}],
             Some(name))

\* the class attribute ranked_methods of TDependentProperty
ranked_methods == << >>

\* list.remove(x): the list without its first x
remove(L, x) ==
    LET at == CHOOSE i \in 1..Len(L) :
                  L[i] = x /\ \A j \in 1..(i - 1) : L[j] # x
    IN  SubSeq(L, 1, at - 1) \o SubSeq(L, at + 1, Len(L))

\* valid_methods(T); T is None or Some(temperature)
valid_methods(o, T) ==
    LET sorted_methods ==
            SelectSeq(ranked_methods, LAMBDA i : i \in o.all_methods)
        current_method == o._method
        moved ==
            IF /\ current_method # None
               /\ \E k \in 1..Len(sorted_methods) :
                      sorted_methods[k] = Val(current_method)
                THEN << Val(current_method) >>
                     \o remove(sorted_methods, Val(current_method))
            ELSE sorted_methods
    IN  IF T = None THEN Ok(moved)
        ELSE IF \E k \in 1..Len(moved) :
                    test_method_validity(o, Val(T), moved[k]).exc # "none"
            THEN Exc("ValueError")
        ELSE Ok(SelectSeq(moved,
                LAMBDA i : test_method_validity(o, Val(T), i).val))

\* TDependentProperty(extrapolation): no data, no poly_fit, no method
TDependentProperty_init(extrapolation) ==
    [cls |-> "TDependentProperty",
     local_methods |-> EmptyDict,
     extrapolation_coeffs |-> EmptyDict,
     tabular_data |-> EmptyDict,
     tabular_data_interpolators |-> EmptyDict,
     all_methods |-> {},
     _extrapolation |-> extrapolation,
     correlations |-> EmptyDict,
     T_limits |-> EmptyDict,
     tabular_extrapolation_permitted |-> TRUE,
     T_cached |-> None,
     prop_cached |-> None,
     _method |-> None]

Extrapolations == {None, Some("constant")}

\* the names the calls use: one per way of adding a method, the polynomial
\* fit, and a name no method has
LocalName == "A"
TabularName == "B"
CorrelationName == "C"
BADMETHOD == "BADMETHOD"
Names == {LocalName, TabularName, CorrelationName, POLY_FIT, BADMETHOD}

\* tables handed to add_tabular_data: (Ts, properties)
Tables == { << <<1, 2>>, <<10, 20>> >>,
            << <<2, 3>>, <<0 - 5, 30>> >>,
            << <<3, 2>>, <<40, 30>> >> }

\* the record of a call: its name, its arguments, its outcome, and the
\* method that was selected when it was made
Reply(op, T, method, r, o) ==
    [op |-> op, T |-> T, method |-> method,
     exc |-> r.exc, val |-> r.val, was |-> o._method]

Built == tdp # NoProperty

PropFrame == UNCHANGED << obj_vars, lib_vars, call_vars, fn_vars >>

New ==
    /\ ~Built
    /\ \E extrapolation \in Extrapolations :
           tdp' = TDependentProperty_init(extrapolation)
    /\ tret' = [op |-> "__init__"]
    /\ PropFrame

Did(op, T, method, res) ==
    /\ tdp' = res.o
    /\ tret' = Reply(op, T, method, res.r, tdp)
    /\ PropFrame

SetMethod ==
    /\ Built
    /\ \E method \in {None} \cup {Some(n) : n \in Names} :
           Did("method", None, method, method_setter(tdp, method))

SetExtrapolation ==
    /\ Built
    /\ \E extrapolation \in Extrapolations :
           Did("extrapolation", None, None,
               extrapolation_setter(tdp, extrapolation))

AddMethod ==
    /\ Built
    /\ \E fn \in Fs :
           Did("add_method", None, Some(LocalName),
               add_method(tdp, fn, 1, 2, LocalName))

AddTabularData ==
    /\ Built
    /\ \E tab \in Tables :
           Did("add_tabular_data", None, Some(TabularName),
               add_tabular_data(tdp, tab[1], tab[2], TabularName))

AddCorrelation ==
    /\ Built
    /\ Did("add_correlation", None, Some(CorrelationName),
           add_correlation(tdp, CorrelationName, 2, 3, [A |-> 5, B |-> 1]))

CallTDependentProperty ==
    /\ Built
    /\ \E T \in TDPTemps :
           Did("T_dependent_property", Some(T), None,
               T_dependent_property(tdp, T))

TestMethodValidity ==
    /\ Built
    /\ \E T \in TDPTemps, n \in {LocalName, BADMETHOD} :
           Did("test_method_validity", Some(T), Some(n),
               Left(test_method_validity(tdp, T, n), tdp))

ValidMethods ==
    /\ Built
    /\ \E T \in {None} \cup {Some(t) : t \in TDPTemps} :
           Did("valid_methods", T, None, Left(valid_methods(tdp, T), tdp))

InitTDP == Init /\ eos = IG_init(2, 4, None, None, None)

NextTDP ==
    \/ New
    \/ SetMethod
    \/ SetExtrapolation
    \/ AddMethod
    \/ AddTabularData
    \/ AddCorrelation
    \/ CallTDependentProperty
    \/ TestMethodValidity
    \/ ValidMethods

SpecTDP == InitTDP /\ [][NextTDP]_vars

\* C19: with RAISE_PROPERTY_CALCULATION_ERROR off, T_dependent_property(T)
\* never raises; it returns None when no method is selected, when T is
\* outside the selected method's limits and no extrapolation is set, when
\* the method's calculation raises, and when the calculated value fails
\* test_property_validity; when T is inside the limits and the calculation
\* gives a valid value, it returns that value.
C19_NeverRaisesNoneWithoutValue ==
    (tret.op = "T_dependent_property" /\ ~RAISE_PROPERTY_CALCULATION_ERROR) =>
        LET T == Val(tret.T)
            selected == tdp._method # None
            m == Val(tdp._method)
            limited == selected /\ m \in DOMAIN tdp.T_limits
            outside == limited /\ ~(tdp.T_limits[m][1] <= T
                                     /\ T <= tdp.T_limits[m][2])
            prop == calculate(tdp, T, m).r
            fails == selected /\ ~outside /\ prop.exc # "none"
            invalid == /\ selected /\ ~outside /\ prop.exc = "none"
                       /\ ~test_property_validity(Val(prop.val))
        IN  /\ tret.exc = "none"
            /\ ~selected => tret.val = None
            /\ (outside /\ tdp._extrapolation = None) => tret.val = None
            /\ fails => tret.val = None
            /\ invalid => tret.val = None
            /\ (selected /\ ~outside /\ ~fails /\ ~invalid)
                  => tret.val = prop.val

\* the calls that do not set the method
Readers == {"T_dependent_property", "test_method_validity", "extrapolation"}

selected_then_ranked(o) ==
    (IF o._method = None THEN << >> ELSE << Val(o._method) >>)
    \o SelectSeq(ranked_methods,
                 LAMBDA i : i \in o.all_methods /\ << i >> # o._method)

\* C21: valid_methods() returns the selected method first whenever one is
\* selected, then the other available methods in ranked_methods order; with
\* a T, the methods of that list that are valid at T, in the same order.
C21_SelectedMethodFirst ==
    (tret.op = "valid_methods" /\ tret.exc = "none") =>
        IF tret.T = None THEN tret.val = selected_then_ranked(tdp)
        ELSE tret.val = SelectSeq(selected_then_ranked(tdp),
                 LAMBDA i : LET v == test_method_validity(tdp, Val(tret.T), i)
                            IN  v.exc = "none" /\ v.val)

\* the place of a tier in the chain Cardano, alternate closed form, a1,
\* low-pressure solver, arbitrary-precision solver
Rank(t) ==
    CASE t = "Cardano" -> 1 [] t = "fast" -> 2 [] t = "a1" -> 3
      [] t = "low_P" -> 4 [] OTHER -> 5

\* the calls of tr respect the chain from the tier ranked entry onwards:
\* each call comes after a call of every tier between entry and its own
InChainOrder(tr, entry) ==
    \A k \in 1..Len(tr) : \A t \in Tiers :
        (entry <= Rank(t) /\ Rank(t) < Rank(tr[k]))
            => \E j \in 1..(k - 1) : tr[j] = t

\* C22: the root solver calls its tiers in the order Cardano, alternate
\* closed form, a1, low-pressure solver, arbitrary-precision solver, a tier
\* only after every earlier one was called and given up; with P < 1e-2 the
\* chain is entered at the low-pressure solver.
C22_TiersInFixedOrder ==
    (stage # "new" /\ IsSome(eos.P)) =>
        InChainOrder(SelectSeq(trace, LAMBDA x : x \in Tiers),
                     IF Val(eos.P).n < P_low THEN 4 ELSE 1)

\* ---------------------------------------------------------------------
\* the Newton polish loop of volume_solutions_NR
\* ---------------------------------------------------------------------

\* rel_err by magnitude: 0 below 1e-14, 1 from 1e-14 to 1e-2, 2 above 1e-2
\* and below 5e3, 3 from 5e3 on, 4 the 1e100 written after a jump
RelErrs == 0..3

\* how the inner loop over range(11) can end for one root, with the rel_err
\* it leaves (None: never assigned for this root) and whether V/Vi left
\* (.95, 1.05):
\*   same_err       w0 - w1 - P == err, on the first pass or a later one
\*   tol            rel_err < 1e-14
\*   stall          V == Vi
\*   maxiter        eleven passes without a break
\*   zero_division  a ZeroDivisionError in the loop or in Vi/V
NewtonOutcomes ==
    {[exit |-> "same_err", rel |-> None, jumped |-> FALSE]}
    \cup {[exit |-> "same_err", rel |-> Some(r), jumped |-> j] :
              r \in RelErrs \ {0}, j \in BOOLEAN}
    \cup {[exit |-> "tol", rel |-> Some(0), jumped |-> j] : j \in BOOLEAN}
    \cup {[exit |-> "stall", rel |-> Some(r), jumped |-> FALSE] :
              r \in RelErrs \ {0}}
    \cup {[exit |-> "maxiter", rel |-> Some(r), jumped |-> j] :
              r \in RelErrs \ {0}, j \in BOOLEAN}
    \cup {[exit |-> "zero_division", rel |-> None, jumped |-> FALSE]}

\* rel_err > 1e-2 with every residual counted as too big unless below 1e-14
residual_above_tol(rel_err) == rel_err >= 1

\* rel_err > 1e-2
residual_too_big(rel_err) == rel_err >= 2

\* failed = False; max_err, rel_err = 0.0, 0.0; for i in (0, 1, 2)
polish_call ==
    [op |-> "polish", pc |-> "root", i |-> 1, failed |-> FALSE,
     max_err |-> 0, rel_err |-> 0, log |-> << >>]

\* what the pass for root i leaves in the log
Logged(out, rel_err, marked, replaced) ==
    [exit |-> out.exit, rel_err |-> rel_err, jumped |-> out.jumped,
     marked |-> marked, replaced |-> replaced]

\* one pass of the outer loop, for root l.i, the inner loop ending as out
polish_root(l, out) ==
    IF out.exit = "zero_division"
        THEN [l EXCEPT !.failed = TRUE, !.pc = "done",
                       !.log = Append(@, Logged(out, l.rel_err, TRUE, FALSE))]
    ELSE
    LET rel_err == IF out.rel = None THEN l.rel_err ELSE Val(out.rel)
        noisy == residual_too_big(rel_err)
    IN  IF out.jumped
            THEN [l EXCEPT !.failed = TRUE, !.max_err = 4, !.pc = "done",
                           !.rel_err = rel_err,
                           !.log = Append(@, Logged(out, rel_err, TRUE, FALSE))]
        ELSE [l EXCEPT !.failed = @ \/ noisy,
                       !.max_err = IF rel_err > @ THEN rel_err ELSE @,
                       !.rel_err = rel_err,
                       !.i = @ + 1,
                       !.pc = IF l.i = 3 THEN "done" ELSE "root",
                       !.log = Append(@, Logged(out, rel_err, noisy, TRUE))]

PolishCall ==
    /\ fcall = NoFn
    /\ fcall' = polish_call
    /\ UNCHANGED << obj_vars, lib_vars, call_vars, prop_vars >>

PolishRoot ==
    /\ fcall.op = "polish" /\ fcall.pc = "root"
    /\ \E out \in NewtonOutcomes : fcall' = polish_root(fcall, out)
    /\ UNCHANGED << obj_vars, lib_vars, call_vars, prop_vars >>

InitPolish == Init /\ eos = PR_init(2, 4, 1, None, None, None)

NextPolish == PolishCall \/ PolishRoot

SpecPolish == InitPolish /\ [][NextPolish]_vars

\* the inner loop ended on one of its convergence tests
Converged(e) == e.exit \in {"tol", "stall", "same_err"}

ambient == 29815

\* roots of to_solve that brenth and secant can converge on: two at the
\* same distance from 298.15 K, one closer, one further
TRoots == {19815, 39815, 31000, 60000}

\* what a call of brenth or secant gives: None when it raised
SolverOutcomes == {None} \cup {Some(t) : t \in TRoots}

\* the hints the callers pass as solution
Solutions == {None, Some("l"), Some("g")}

AbsDiff(x, y) == IF x < y THEN y - x ELSE x - y

\* the try / except around the two secant calls, without the hard-coded
\* brenth of its innermost except clause
secant_block_no_last_resort(T_brenth, s1, s2, hb) ==
    IF s1 # None THEN [T_brenth |-> T_brenth, T_secant |-> s1, exc |-> FALSE]
    ELSE [T_brenth |-> T_brenth, T_secant |-> s2, exc |-> FALSE]

\* the try / except around the two secant calls: s1, s2 are the outcomes
\* of secant from the two guesses, hb of brenth between 1e-3 and 1e4
secant_block(T_brenth, s1, s2, hb) ==
    IF s1 # None THEN [T_brenth |-> T_brenth, T_secant |-> s1, exc |-> FALSE]
    ELSE IF s2 # None
        THEN [T_brenth |-> T_brenth, T_secant |-> s2, exc |-> FALSE]
    ELSE IF T_brenth = None
        THEN [T_brenth |-> hb, T_secant |-> None, exc |-> hb = None]
    ELSE [T_brenth |-> T_brenth, T_secant |-> None, exc |-> FALSE]

\* the returns at the end of solve_T with the larger and the smaller
\* temperature exchanged
final_choice_swapped(solution, T_brenth, T_secant) ==
    IF solution # None /\ T_secant # None /\ T_brenth # None
        THEN IF solution = Some("g")
                 THEN Some(SetMin({Val(T_brenth), Val(T_secant)}))
                 ELSE Some(SetMax({Val(T_brenth), Val(T_secant)}))
    ELSE IF T_brenth = None THEN T_secant
    ELSE IF T_secant # None THEN T_secant
    ELSE T_brenth

\* the returns at the end of solve_T
final_choice(solution, T_brenth, T_secant) ==
    IF solution # None /\ T_secant # None /\ T_brenth # None
        THEN IF solution = Some("g")
                 THEN Some(SetMax({Val(T_brenth), Val(T_secant)}))
                 ELSE Some(SetMin({Val(T_brenth), Val(T_secant)}))
    ELSE IF T_brenth = None THEN T_secant
    ELSE IF /\ T_secant # None
            /\ AbsDiff(Val(T_brenth), ambient) < AbsDiff(Val(T_secant), ambient)
        THEN T_brenth
    ELSE IF T_secant # None THEN T_secant
    ELSE T_brenth

\* GCEOS.solve_T(P, V, solution=solution) once 1/(V*V + delta*V + epsilon)
\* and 1/(V - b) were formed.  bracketed: err_ig*err_liq < 0.0 and
\* T_guess_liq < 3e4.  b1, s1, s2, hb: the outcomes of the first brenth,
\* the two secant calls and the hard-coded brenth; a1, a2: of the first
\* attempt_bounds loop that assigns T_brenth and of the one that assigns
\* T_secant (None when every bracket of the loop raised).
GCEOS_solve_T(solution, bracketed, b1, s1, s2, hb, a1, a2) ==
    LET T_brenth0 == IF bracketed THEN b1 ELSE None
        sec == secant_block(T_brenth0, s1, s2, hb)
        again == /\ solution # None
                 /\ \/ sec.T_brenth = None
                    \/ sec.T_secant # None /\ sec.T_brenth = sec.T_secant
        T_brenth == IF again /\ a1 # None THEN a1 ELSE sec.T_brenth
        T_secant == IF solution # None /\ sec.T_secant = None
                        THEN a2 ELSE sec.T_secant
        called == {T_brenth0, s1}
                  \cup (IF s1 = None THEN {s2} ELSE {})
                  \cup (IF s1 = None /\ s2 = None /\ T_brenth0 = None
                            THEN {hb} ELSE {})
                  \cup (IF ~sec.exc /\ again THEN {a1} ELSE {})
                  \cup (IF ~sec.exc /\ solution # None /\ sec.T_secant = None
                            THEN {a2} ELSE {})
    IN  [op |-> "solve_T", pc |-> "done", solution |-> solution,
         bracketed |-> bracketed,
         exc |-> sec.exc,
         T_brenth |-> IF sec.exc THEN None ELSE T_brenth,
         T_secant |-> IF sec.exc THEN None ELSE T_secant,
         converged |-> called \ {None},
         ret |-> IF sec.exc THEN None
                 ELSE final_choice(solution, T_brenth, T_secant)]

\* a call of the generic solve_T, the solvers ending in any of their ways
SolveTCall ==
    /\ fcall = NoFn
    /\ \E solution \in Solutions, bracketed \in BOOLEAN,
          b1 \in SolverOutcomes, s1 \in SolverOutcomes,
          s2 \in SolverOutcomes, hb \in SolverOutcomes,
          a2 \in SolverOutcomes :
          \E a1 \in SolverOutcomes \ {Some(t) : t \in {Val(s) : s \in {s1, s2} \ {None}}} :
              fcall' = GCEOS_solve_T(solution, bracketed,
                                     b1, s1, s2, hb, a1, a2)
    /\ UNCHANGED << obj_vars, lib_vars, call_vars, prop_vars >>

InitSolveT == Init /\ eos = PRTranslated_init(2, 4, 1, 1, None, None, None)

NextSolveT == SolveTCall

SpecSolveT == InitSolveT /\ [][NextSolveT]_vars

\* C24: with a hint and both a bracket result and a secant result, solve_T
\* returns the larger temperature for 'g' and the smaller for 'l'; with no
\* hint and both results, the one closest to 298.15 K; with only one
\* result, that one.
C24_FinalChoice ==
    (fcall.op = "solve_T" /\ ~fcall.exc) =>
        LET b == fcall.T_brenth
            s == fcall.T_secant
        IN  /\ (b # None /\ s # None /\ fcall.solution = Some("g"))
                  => (fcall.ret \in {b, s} /\ Val(fcall.ret) >= Val(b)
                      /\ Val(fcall.ret) >= Val(s))
            /\ (b # None /\ s # None /\ fcall.solution = Some("l"))
                  => (fcall.ret \in {b, s} /\ Val(fcall.ret) <= Val(b)
                      /\ Val(fcall.ret) <= Val(s))
            /\ (b # None /\ s # None /\ fcall.solution = None)
                  => (fcall.ret \in {b, s}
                      /\ AbsDiff(Val(fcall.ret), ambient) <= AbsDiff(Val(b), ambient)
                      /\ AbsDiff(Val(fcall.ret), ambient) <= AbsDiff(Val(s), ambient))
            /\ (b # None /\ s = None) => fcall.ret = b
            /\ (b = None /\ s # None) => fcall.ret = s

C24_Witness ==
    /\ fcall.op = "solve_T" /\ ~fcall.exc
    /\ fcall.solution = Some("g")
    /\ fcall.T_brenth = Some(60000) /\ fcall.T_secant = Some(31000)
    /\ fcall.ret = Some(60000)

\* C25: solve_T raises or returns a temperature on which one of the brenth
\* or secant calls it made converged; it never returns None.
C25_ReturnsConvergedOrRaises ==
    (fcall.op = "solve_T" /\ ~fcall.exc) =>
        (fcall.ret # None /\ fcall.ret \in fcall.converged)

C25_Witness ==
    /\ fcall.op = "solve_T" /\ ~fcall.exc /\ ~fcall.bracketed
    /\ fcall.T_secant = None /\ fcall.solution = None
    /\ fcall.ret = Some(19815)

\* ---------------------------------------------------------------------
\* the seed loops of T_discriminant_zero_l / _g and _P_discriminant_zero
\* ---------------------------------------------------------------------

\* seeds tried per call, the list guesses in its order
MaxSeeds == 3

Seeds == 1..MaxSeeds

\* how the try block can end for one seed:
\*   raise  secant / newton raised
\*   bad    it returned a value the assert refuses (<= 0, or 1)
\*   below  it returned a value that is not above low_bound
\*   ok     it returned a value that passes the asserts
SeedOutcomes == {"raise", "bad", "below", "ok"}

\* the locals of the loop before the first seed
NoSeedYet == [disc |-> None, tried |-> << >>]

RECURSIVE T_disc_loop(_, _, _)
\* for T in guesses: try: T_disc = secant(...); assert ...; break
\* except: pass -- from seed g on, with the locals l
T_disc_loop(outs, g, l) ==
    IF g > Len(outs) THEN l
    ELSE LET ran == [l EXCEPT !.tried = Append(@, g)] IN
         IF outs[g] = "raise" THEN T_disc_loop(outs, g + 1, ran)
         ELSE LET set == [ran EXCEPT !.disc = Some(g)] IN
              IF outs[g] = "ok" THEN set
              ELSE T_disc_loop(outs, g + 1, set)

\* T_discriminant_zero_g (and _l, the same loop over another list)
T_discriminant_zero_g(outs) ==
    LET l == T_disc_loop(outs, 1, NoSeedYet) IN
    [args |-> << >>, tried |-> l.tried, ret |-> l.disc,
     exc |-> IF l.disc = None THEN "UnboundLocalError" ELSE "none"]

\* low_bound as the loop body of _P_discriminant_zero sets it; Tr is bound
\* only where coeffs is not None
low_bound(low, T_lt_Tc, has_coeffs, Tr_big) ==
    IF ~low /\ T_lt_Tc THEN "1e8"
    ELSE IF ~has_coeffs THEN "NameError"
    ELSE IF Tr_big THEN "1.0" ELSE "None"

RECURSIVE P_disc_loop(_, _, _, _, _)
\* for P in guesses: try: ...; P_disc = newton(...); assert P_disc > 0 and
\* not P_disc == 1; if not low: assert P_disc > low_bound; break
\* except: pass
P_disc_loop(outs, g, l, low, lb) ==
    IF g > Len(outs) THEN l
    ELSE IF lb = "NameError" THEN P_disc_loop(outs, g + 1, l, low, lb)
    ELSE LET ran == [l EXCEPT !.tried = Append(@, g)] IN
         IF outs[g] = "raise" THEN P_disc_loop(outs, g + 1, ran, low, lb)
         ELSE LET set == [ran EXCEPT !.disc = Some(g)] IN
              IF outs[g] = "bad" THEN P_disc_loop(outs, g + 1, set, low, lb)
              ELSE IF ~low /\ (lb = "None" \/ outs[g] = "below")
                  THEN P_disc_loop(outs, g + 1, set, low, lb)
              ELSE set

\* _P_discriminant_zero(low) on an object with T < Tc or not, with or
\* without Chebyshev coefficients for the first seed, with Tr > .3 or not
_P_discriminant_zero(low, T_lt_Tc, has_coeffs, Tr_big, outs) ==
    LET lb == low_bound(low, T_lt_Tc, has_coeffs, Tr_big)
        l == P_disc_loop(outs, 1, NoSeedYet, low, lb)
        last == IF l.disc = None THEN "raise" ELSE outs[Val(l.disc)]
    IN  [args |-> << low, T_lt_Tc, has_coeffs, Tr_big >>,
         tried |-> l.tried, ret |-> l.disc,
         exc |-> IF ~low /\ l.disc = None THEN "UnboundLocalError"
                 ELSE IF ~low /\ lb = "NameError" THEN "NameError"
                 ELSE IF ~low /\ lb = "None" THEN "TypeError"
                 ELSE IF ~low /\ last = "below" THEN "AssertionError"
                 ELSE IF l.disc = None THEN "UnboundLocalError"
                 ELSE "none"]

SeedFrame(op, outs, r) ==
    /\ fcall' = [op |-> op, pc |-> "done", outs |-> outs, args |-> r.args,
                 tried |-> r.tried, ret |-> r.ret, exc |-> r.exc]
    /\ UNCHANGED << obj_vars, lib_vars, call_vars, prop_vars >>

TDiscCall ==
    /\ fcall = NoFn
    /\ \E op \in {"T_discriminant_zero_l", "T_discriminant_zero_g"},
          outs \in [Seeds -> SeedOutcomes \ {"below"}] :
          SeedFrame(op, outs, T_discriminant_zero_g(outs))

PDiscCall ==
    /\ fcall = NoFn
    /\ \E low \in BOOLEAN, T_lt_Tc \in BOOLEAN, has_coeffs \in BOOLEAN,
          Tr_big \in BOOLEAN :
          \E outs \in [Seeds -> IF low THEN SeedOutcomes \ {"below"}
                                ELSE SeedOutcomes] :
          SeedFrame("_P_discriminant_zero", outs,
                    _P_discriminant_zero(low, T_lt_Tc, has_coeffs, Tr_big,
                                         outs))

InitSeeds == Init /\ eos = PR_init(2, 4, 1, None, None, None)

NextSeeds == TDiscCall \/ PDiscCall

SpecSeeds == InitSeeds /\ [][NextSeeds]_vars

SeedOps == {"T_discriminant_zero_l", "T_discriminant_zero_g",
            "_P_discriminant_zero"}

\* the seeds up to the first one whose refinement converges, in list order
UpToFirstOk(outs) ==
    LET oks == {g \in DOMAIN outs : outs[g] = "ok"}
        last == IF oks = {} THEN Len(outs) ELSE SetMin(oks)
    IN  [g \in 1..last |-> g]

\* C26: a discriminant-boundary solver runs the refinement from its seeds
\* one at a time in list order up to the first seed that converges, whether
\* or not the EOS defines fit coefficients, and returns that seed's result;
\* when no seed converges the call ends with an error, not a value.
C26_FirstConvergingSeed ==
    fcall.op \in SeedOps =>
        LET oks == {g \in DOMAIN fcall.outs : fcall.outs[g] = "ok"} IN
        /\ fcall.tried = UpToFirstOk(fcall.outs)
        /\ oks # {} => fcall.exc = "none" /\ fcall.ret = Some(SetMin(oks))
        /\ oks = {} => fcall.exc # "none"


\* the alpha derivatives the properties of each record of b that is
\* populated were last computed with, as they stand in o
recomputed_with_full(b, o) ==
    /\ IsSome(b.V_l) => o.alphas_l = "full"
    /\ IsSome(b.V_g) => o.alphas_g = "full"

\* C27: after resolve_full_alphas on a state solved by T and P, every phase
\* record that was populated before the call holds properties recomputed
\* with the full a_alpha, da_alpha_dT and d2a_alpha_dT2, while V_l, V_g and
\* phase are what they were before the call.
C27_ResolveRecomputesEveryRecord ==
    (last_op = "resolve_full_alphas" /\ IsSome(before.raw_volumes)) =>
        /\ recomputed_with_full(before, eos)
        /\ eos.V_l = before.V_l
        /\ eos.V_g = before.V_g
        /\ eos.phase = before.phase


(***************************************************************************)
(* obj(T): TDependentProperty.__call__ and the one-entry cache it keeps in *)
(* T_cached and prop_cached.                                               *)
(***************************************************************************)

\* __call__(T)
call(o, T) ==
    IF Some(T) = o.T_cached THEN Left(Ok(o.prop_cached), o)
    ELSE LET res == T_dependent_property(o, T) IN
         IF res.r.exc # "none" THEN res
         ELSE Left(res.r, [res.o EXCEPT !.prop_cached = res.r.val,
                                        !.T_cached = Some(T)])

\* obj(T); the reply also holds what obj.T_dependent_property(T) gives on
\* the object as it stands when the call is made
CallObject ==
    /\ Built
    /\ \E T \in TDPTemps :
           \E res \in {call(tdp, T)} :
               /\ tdp' = res.o
               /\ tret' = [op |-> "__call__", T |-> Some(T),
                           exc |-> res.r.exc, val |-> res.r.val,
                           now |-> T_dependent_property(tdp, T).r]
               /\ PropFrame

InitCache == Init /\ eos = IG_init(2, 4, None, None, None)

NextCache ==
    \/ New
    \/ SetMethod
    \/ SetExtrapolation
    \/ AddMethod
    \/ AddTabularData
    \/ AddCorrelation
    \/ CallTDependentProperty
    \/ CallObject

SpecCache == InitCache /\ [][NextCache]_vars

\* C28: obj(T) returns what obj.T_dependent_property(T) returns at that
\* moment, whatever was done to the object before (setting the method or
\* the extrapolation, add_method, add_correlation, add_tabular_data, other
\* calls): the cached value is never stale.
C28_CallNeverStale ==
    tret.op = "__call__" =>
        /\ tret.exc = tret.now.exc
        /\ tret.val = tret.now.val


(***************************************************************************)
(* What a solved object reports about itself (state_specs, __repr__) and   *)
(* the queries T_min_at_V and T_max_at_V made on it.                       *)
(***************************************************************************)

\* the property state_specs; __repr__ prints the same pair
state_specs(o) ==
    IF o.no_T_spec THEN [P |-> o.P, V |-> o.V]
    ELSE IF o.V # None THEN [T |-> o.T, V |-> o.V]
    ELSE [T |-> o.T, P |-> o.P]

\* Pmin=1e-15 in the signature of T_min_at_V, as a small fraction
Pmin == Frac(1, 1000)

\* self.solve_T(P=P, V=V) called on a solved object: the arguments are
\* passed, the attribute no_T_spec is written on the object itself
solve_T_on_self(o, P, V) ==
    LET ts == IF o.cls = "IG"
              THEN {[kind |-> "T", T |-> Frac(P.n * V, R * P.d),
                     no_T_spec |-> TRUE]}
              ELSE solve_T([o EXCEPT !.P = Some(P), !.V = Some(V)])
    IN  { [o |-> [o EXCEPT !.no_T_spec = @ \/ t.no_T_spec],
           T |-> IF t.kind = "T" THEN Some(t.T) ELSE None,
           err |-> IF t.kind = "T" THEN "none" ELSE "raise"] : t \in ts }

T_min_at_V(o, V) == solve_T_on_self(o, Pmin, V)

\* P_max_at_V: None in GCEOS; PR computes a pressure and returns None when
\* it is negative
P_max_at_V(o, V) ==
    IF o.cls = "IG" THEN {None}
    ELSE {None} \cup {Some(Frac(p, 1)) : p \in Temps}

T_max_at_V(o, V, Pmax) ==
    UNION { IF Pm = None THEN {[o |-> o, T |-> None, err |-> "none"]}
            ELSE solve_T_on_self(o, Val(Pm), V) :
            Pm \in IF Pmax = None THEN P_max_at_V(o, V) ELSE {Pmax} }

\* what a query leaves behind; the object it ran on may have been written
QueryFrame(op, V, r) ==
    /\ eos' = r.o
    /\ ret' = [op |-> op, V |-> V, T |-> r.T, err |-> r.err]
    /\ last_op' = op
    /\ before' = eos
    /\ UNCHANGED << stage, outcome, flags, trace, err_info, calls, handed,
                    resolves >>
    /\ UNCHANGED << lib_vars, sat, prop_vars, fn_vars >>

TMinAtV ==
    /\ stage = "solved"
    /\ \E V \in ArgV : \E r \in T_min_at_V(eos, V) :
           QueryFrame("T_min_at_V", V, r)

TMaxAtV ==
    /\ stage = "solved"
    /\ \E V \in ArgV, Pmax \in {None, Some(Frac(1, 1))} :
           \E r \in T_max_at_V(eos, V, Pmax) :
               QueryFrame("T_max_at_V", V, r)

InitQuery == InitTo

NextQuery ==
    \/ Construct
    \/ TMinAtV
    \/ TMaxAtV
    \/ To_TP
    \/ To_TV
    \/ To_PV
    \/ To

SpecQuery == InitQuery /\ [][NextQuery]_vars

QueryOps == ToOps \cup {"T_min_at_V", "T_max_at_V"}

\* the two of T, P, V the constructor was given
construction_specs(b) ==
    IF IsSome(b.T) /\ IsSome(b.P) THEN [T |-> b.T, P |-> b.P]
    ELSE IF IsSome(b.T) /\ IsSome(b.V) THEN [T |-> b.T, V |-> b.V]
    ELSE [P |-> b.P, V |-> b.V]

\* C29: state_specs and repr report exactly the two specifications the
\* object was constructed with, and go on doing so after any query made on
\* the object: a query changes neither T, P, V, phase nor the reported pair.
C29_QueriesKeepReportedSpecs ==
    /\ (last_op = "solve" /\ stage = "solved") =>
           state_specs(eos) = construction_specs(before)
    /\ last_op \in QueryOps =>
           /\ eos.T = before.T
           /\ eos.P = before.P
           /\ eos.V = before.V
           /\ eos.phase = before.phase
           /\ state_specs(eos) = state_specs(before)


(***************************************************************************)
(* volume_solutions_mpmath as one function of its arguments: what each of  *)
(* its further attempts is handed.                                         *)
(***************************************************************************)

\* the arguments T, P, b, delta, epsilon, a_alpha; b is kept as a fraction
MpArgs(T, P, b, delta, epsilon, a_alpha) ==
    [T |-> T, P |-> P, b |-> b, delta |-> delta, epsilon |-> epsilon,
     a_alpha |-> a_alpha]

\* b = (deltas - B - 1) with B = b*P/(R*T) and deltas = delta*P/(R*T): the
\* coefficient of the cubic, assigned to the name of the parameter b
cubic_b(a) ==
    Frac((a.delta * a.b.d - a.b.n) * a.P - R * a.T * a.b.d,
         R * a.T * a.b.d)

\* what the numeric kernels of one frame do: polyroots within its eight
\* tries ("roots", "degenerate": every root 0 or 1, "raise"), polyroots
\* seeded with roots_init, findroot from the guesses
MpOutcomes ==
    [poly : {"roots", "degenerate", "raise"}, seeded : {"roots", "raise"},
     numeric : {"hits", "none"}]

\* the outcomes of the nested frames: every frame but the last retries
MpRuns ==
    { outs \in UNION { [1..k -> MpOutcomes] : k \in 1..(MaxDoublings + 1) } :
        \A k \in DOMAIN outs :
            (outs[k].poly = "degenerate") <=> (k < Len(outs)) }

Attempt(kind, a, dps) == [kind |-> kind, args |-> a, dps |-> dps]

RECURSIVE GCEOS_volume_solutions_mpmath(_, _, _)
\* the result and, in order, the further attempts made with the arguments
\* each was given
GCEOS_volume_solutions_mpmath(a, dps, outs) ==
    LET o == Head(outs)
        local == [a EXCEPT !.b = cubic_b(a)]
        seeded == Attempt("roots_init", local, dps)
        numeric == Attempt("findroot", local, dps)
    IN
    IF o.poly = "roots" THEN [res |-> "roots", log |-> << >>]
    ELSE IF o.poly = "degenerate" THEN
        LET inner == GCEOS_volume_solutions_mpmath(local, dps * 2, Tail(outs))
            log1 == << Attempt("dps*2", local, dps * 2) >> \o inner.log
        IN
        IF inner.res # "ValueError" THEN [res |-> inner.res, log |-> log1]
        ELSE [res |-> IF o.seeded = "roots" THEN "roots" ELSE "roots 0 or 1",
              log |-> Append(log1, seeded)]
    ELSE IF o.seeded = "roots"
        THEN [res |-> "roots", log |-> << seeded >>]
    ELSE [res |-> IF o.numeric = "hits" THEN "hits" ELSE "ValueError",
          log |-> << seeded, numeric >>]

\* the argument lists the calls are made with: an ideal gas and a
\* Peng-Robinson parameter set
MpArgLists ==
    { MpArgs(T, P, Frac(0, 1), 0, 0, 0) : T \in Temps, P \in Pressures }
    \cup { MpArgs(T, P, Frac(1, 1), 2, 0 - 1, aa) :
              T \in Temps, P \in Pressures, aa \in a_alphas }

MpmathCall ==
    /\ fcall = NoFn
    /\ \E a \in MpArgLists, outs \in MpRuns :
          LET r == GCEOS_volume_solutions_mpmath(a, dps_default, outs) IN
          fcall' = [op |-> "volume_solutions_mpmath", pc |-> "done",
                    args |-> a, outs |-> outs, res |-> r.res, log |-> r.log]
    /\ UNCHANGED << obj_vars, lib_vars, call_vars, prop_vars >>

InitMpmath == Init /\ eos = PR_init(2, 4, 1, None, None, None)

NextMpmath == MpmathCall

SpecMpmath == InitMpmath /\ [][NextMpmath]_vars

\* two argument lists hold the same values
SameArgs(x, y) ==
    /\ x.T = y.T /\ x.P = y.P
    /\ x.b.n * y.b.d = y.b.n * x.b.d
    /\ x.delta = y.delta /\ x.epsilon = y.epsilon /\ x.a_alpha = y.a_alpha

\* C30: every further attempt inside volume_solutions_mpmath (the retry at
\* doubled precision, the seeded polyroots and the numeric fallback) is
\* made with the T, P, b, delta, epsilon and a_alpha the caller passed.
C30_RetriesUseCallersArguments ==
    fcall.op = "volume_solutions_mpmath" =>
        \A k \in DOMAIN fcall.log : SameArgs(fcall.log[k].args, fcall.args)

====
